---- MODULE Spec2Model ----
(***************************************************************************)
(* GpuJoin runtime engine (gpujoin.c): inner multi-relations buffer,       *)
(* window enumeration, task life cycle, result-buffer sizing, outer-join   *)
(* map colocation and hash-histogram partitioning.                         *)
(*                                                                         *)
(* Byte lengths are scaled down to small units; every length keeps the     *)
(* formula the source computes it with.  Doubles are exact rationals       *)
(* <<numerator, denominator>>; a cast to an integer type is a floor.       *)
(***************************************************************************)
EXTENDS Integers, Sequences, FiniteSets, TLC

VARIABLES cfg, gjs, pmrels, tasks, pending_tasks, running_tasks,
          completed_tasks, ctl, oj, hp

vars == <<cfg, gjs, pmrels, tasks, pending_tasks, running_tasks,
          completed_tasks, ctl, oj, hp>>

(***************************************************************************)
(* Bounds of the model.                                                    *)
(***************************************************************************)
NumRels == 2
NDev == 2
MaxBatches == 2
NOuter == 3
OuterChunkRows == 2
InnerNitems == 2
MaxPmrels == 3
MaxTasks == 6
MaxAsync == 2
HistCap == 2
MaxFaults == 1
MaxInnerRows == 3
MaxItem == 2
MaxRescans == 1
MaxAgain == 1
MaxLoads == 2
MaxLocalSize == 4
MaxSortItems == 8
MaxSortKey == 2

(***************************************************************************)
(* Program constants, scaled.                                              *)
(***************************************************************************)
ChunkSize == 32
ChunkSizeLimit == 48
ChunkSizeMargin == <<3, 2>>
KgjoinHead == 2
ResultbufHead == 1
KdsHead == 2
SlotWidth == 4
TupItemHead == 1
NCols == 1
IntMax == 1000
OitemsNumsUnset == 4096
PlanWidth == 2
HashBits == 16
HgramLog2 == 4
HashKdsHead == 1
HashBlckSz == 2
WideWidth == 6
HugeWidth == 22
MaxFan == 3
LockMaxTasks == 3

JOIN_INNER == "inner"
JOIN_LEFT == "left"
JOIN_FULL == "full"
JOIN_RIGHT == "right"

KDS_FORMAT_ROW == "row"
KDS_FORMAT_SLOT == "slot"

StromError_Success == "Success"
StromError_DataStoreNoSpace == "DataStoreNoSpace"
CudaError == "CudaError"

NULL == 0
Devs == 1..NDev
Depths == 1..NumRels

Min(a, b) == IF a <= b THEN a ELSE b
Max(a, b) == IF a >= b THEN a ELSE b

\* history counters stop counting at HistCap
Count(n) == Min(n + 1, HistCap)

\* the list operations the handlers use on the task queues
dlist_push_tail(q, t) == Append(q, t)
\* a push that leaves the node behind the ones already queued
dlist_push_head_behind(q, t) == q \o <<t>>
dlist_push_head(q, t) == <<t>> \o q

(***************************************************************************)
(* Exact rationals for the double arithmetic of the size estimator.        *)
(***************************************************************************)
RECURSIVE Gcd(_, _)
Gcd(a, b) == IF b = 0 THEN a ELSE Gcd(b, a % b)

RNorm(q) ==
    LET g == Gcd(q[1], q[2])
    IN  IF g <= 1 THEN q ELSE <<q[1] \div g, q[2] \div g>>

RInt(n) == <<n, 1>>
RDiv(n, d) == RNorm(<<n, d>>)
RMul(a, b) == RNorm(<<a[1] * b[1], a[2] * b[2]>>)
RAdd(a, b) == RNorm(<<a[1] * b[2] + b[1] * a[2], a[2] * b[2]>>)
RSub(a, b) == RNorm(<<a[1] * b[2] - b[1] * a[2], a[2] * b[2]>>)
RLe(a, b) == a[1] * b[2] <= b[1] * a[2]
RMax(a, b) == IF RLe(b, a) THEN a ELSE b
RMin(a, b) == IF RLe(a, b) THEN a ELSE b
RFloor(a) == a[1] \div a[2]

(***************************************************************************)
(* Data stores.  A destination store keeps the rows the device wrote: one  *)
(* entry per result row, tagged with the outer row that produced it.       *)
(***************************************************************************)
OuterChunk(first, nitems) == [first |-> first, nitems |-> nitems]

\* pds_src == NULL, pds_dst == NULL
NoChunk == [first |-> 0, nitems |-> 0]
NoStore == [format |-> "none", length |-> 0, usage |-> 0, nitems |-> 0,
            nrooms |-> 0, rows |-> <<>>]

DstStore(format, length, nrooms) ==
    [format |-> format, length |-> length, usage |-> 0, nitems |-> 0,
     nrooms |-> nrooms, rows |-> <<>>]

\* C index i of gjs->outer_nitems[] / kern.outer_nitems[] is position i + 1.
OuterNitems(arr, i) == arr[i + 1]

ZeroNitems == [i \in 1..(NumRels + 1) |-> 0]

IsRightOuter(jt) == jt \in {JOIN_RIGHT, JOIN_FULL}

\* gpujoin_begin: the least depth with a RIGHT/FULL join, 1 if there is none.
RECURSIVE FirstOuterDepth(_, _)
FirstOuterDepth(join_type, d) ==
    IF d > NumRels THEN 0 - 1
    ELSE IF IsRightOuter(join_type[d]) THEN d
    ELSE FirstOuterDepth(join_type, d + 1)

OuterJoinStartDepth(join_type) == Max(FirstOuterDepth(join_type, 1), 1)

(***************************************************************************)
(* compute_outer_ntuples_OJ: expected rows of the outer-join task, from    *)
(* the run-time statistics.  Returns <<ntuples, kresults_ratio>>.          *)
(***************************************************************************)
RECURSIVE OuterNtuplesOJLoop(_, _, _, _, _, _)
OuterNtuplesOJLoop(g, oitems_nums, depth, i, ntuples, kresults_ratio) ==
    IF i >= depth THEN <<ntuples, kresults_ratio>>
    ELSE
      LET prev == OuterNitems(g.outer_nitems, i - 1)
          curr == OuterNitems(g.outer_nitems, i)
          exec_nrows_ratio ==
              IF prev > 0 THEN RDiv(curr, prev)
              ELSE IF curr > 0 THEN RInt(1) ELSE RInt(0)
          Inner(ratio) ==
              IF i > g.outer_join_start_depth
              THEN RMul(ntuples, RMul(ratio, ChunkSizeMargin))
              ELSE ntuples
          Outer(ratio, nt1) ==
              IF IsRightOuter(g.join_type[i])
              THEN RAdd(nt1,
                        RMul(RMul(RSub(RInt(1), RMin(ratio, RInt(1))),
                                  ChunkSizeMargin),
                             RInt(InnerNitems)))
              ELSE nt1
          Kresults(nt2) ==
              RMax(kresults_ratio,
                   RMul(RInt(i + 1), RMul(nt2, <<1, oitems_nums>>)))
          Rest(nt2) ==
              OuterNtuplesOJLoop(g, oitems_nums, depth, i + 1, nt2,
                                 Kresults(nt2))
          Step(ratio) == Rest(Outer(ratio, Inner(ratio)))
      IN  Step(exec_nrows_ratio)

compute_outer_ntuples_OJ(g, oitems_nums, depth) ==
    LET Result(r) == <<RFloor(r[1]), r[2]>>
    IN  Result(OuterNtuplesOJLoop(g, oitems_nums, depth,
                                  g.outer_join_start_depth, RInt(0), RInt(0)))

(***************************************************************************)
(* gpujoin_attach_result_buffer, first half: the two ratios.               *)
(***************************************************************************)
RECURSIVE KresultsRatioExec(_, _, _)
KresultsRatioExec(g, i, acc) ==
    IF i > NumRels THEN acc
    ELSE KresultsRatioExec(g, i + 1,
             RMax(acc, RDiv((i + 1) * OuterNitems(g.outer_nitems, 0),
                            g.source_nitems)))

\* (size_t)(0.30 * outer_plan_nrows) and the double 0.30 * outer_plan_nrows
PlanThreshold(g) == <<3 * g.outer_plan_nrows, 10>>

EstimatedRatios(g, task) ==
    IF task.pds_src # NoChunk
    THEN
      IF g.source_nitems = 0
      THEN <<g.kresults_ratio, g.nrows_ratio[NumRels]>>
      ELSE
        LET kresults_ratio_plan == g.kresults_ratio
            dst_nrows_ratio_plan == g.nrows_ratio[NumRels]
            Merged(kresults_ratio_exec, dst_nrows_ratio_exec, merge_ratio) ==
                <<RAdd(RMul(kresults_ratio_exec, merge_ratio),
                       RMul(kresults_ratio_plan,
                            RSub(RInt(1), merge_ratio))),
                  RAdd(RMul(dst_nrows_ratio_exec, merge_ratio),
                       RMul(dst_nrows_ratio_plan,
                            RSub(RInt(1), merge_ratio)))>>
            Exec(kresults_ratio_exec, dst_nrows_ratio_exec) ==
                IF g.source_nitems >= RFloor(PlanThreshold(g))
                THEN <<kresults_ratio_exec, dst_nrows_ratio_exec>>
                ELSE Merged(kresults_ratio_exec, dst_nrows_ratio_exec,
                            RMul(RInt(g.source_nitems),
                                 <<PlanThreshold(g)[2], PlanThreshold(g)[1]>>))
        IN  Exec(KresultsRatioExec(g, 1,
                     RDiv(OuterNitems(g.outer_nitems, 0), g.source_nitems)),
                 RDiv(OuterNitems(g.outer_nitems, NumRels - 1),
                      g.source_nitems))
    ELSE
      LET Ratios(ojr) ==
              <<ojr[2], RDiv(ojr[1], InnerNitems - task.oitems_base)>>
      IN  Ratios(compute_outer_ntuples_OJ(g, task.oitems_nums, NumRels + 1))

\* a re-sizing that forgets what the failed attempt consumed
RatiosWithoutPrevious(g, task) == EstimatedRatios(g, task)

\* In case of re-execution due to NoDataSpace error
RatiosWithPrevious(g, task) ==
    LET Previous(est) ==
            IF task.pds_dst # NoStore
            THEN <<RMax(est[1], RDiv(task.kern.kresults_max_items,
                                     task.oitems_nums)),
                   RMax(est[2], RDiv(task.pds_dst.nitems, task.oitems_nums))>>
            ELSE est
    IN  Previous(EstimatedRatios(g, task))

(***************************************************************************)
(* gpujoin_attach_result_buffer, second half: buffer lengths, reduction of *)
(* the admitted outer rows, and the (re)initialised destination store.     *)
(* The result is the task with its buffers attached, and an error mark:    *)
(* "none", "error" (elog ERROR) or "fpe" (integer division by zero).       *)
(***************************************************************************)
ResultbufLength(total_items) == ResultbufHead + total_items

SlotLength(nitems) == KdsHead + SlotWidth * nitems

RowLength(nitems, width) == KdsHead + nitems + (TupItemHead + width) * nitems

\* a reset that forgets the rows of the failed attempt
ResetDstStoreKeepsRows(pds_dst, new_length, nrooms) ==
    [pds_dst EXCEPT !.nrooms = nrooms,
                    !.length = IF new_length <= pds_dst.length
                               THEN pds_dst.length ELSE new_length]

\* in case of StromError_DataStoreNoSpace: reset or re-allocate the store
ResetDstStore(pds_dst, new_length, nrooms) ==
    [pds_dst EXCEPT !.usage = 0, !.nitems = 0, !.rows = <<>>,
                    !.nrooms = nrooms,
                    !.length = IF new_length <= pds_dst.length
                               THEN pds_dst.length ELSE new_length]

\* total_items of a kern_resultbuf / the rooms of the destination store
ExpectedItems(ratio, oitems_nums) ==
    RFloor(RMul(RMul(ratio, RInt(oitems_nums)), ChunkSizeMargin))

\* the destination store of oitems_nums1 outer rows that are expected to
\* give result_nitems0 rows
AttachDstStore(g, task, oitems_nums1, total_items, result_nitems0) ==
    LET pds_dst == task.pds_dst
        kern1 == [task.kern EXCEPT !.kresults_total_items = total_items,
                                   !.kresults_max_items = 0,
                                   !.kerror = StromError_Success]
        Attached(oitems_nums, store) ==
            [task |-> [task EXCEPT !.oitems_nums = oitems_nums,
                                   !.pds_dst = store,
                                   !.kern = kern1],
             err |-> "none"]
        Failed(why) == [task |-> task, err |-> why]
    IN
    IF g.result_format = KDS_FORMAT_SLOT
    THEN
      LET length == SlotLength(result_nitems0)
          small_nitems == (ChunkSizeLimit - KdsHead) \div SlotWidth
          shrink == NCols # 0 /\ length >= ChunkSize \div 4
                    /\ length > ChunkSizeLimit
          result_nitems ==
              IF NCols = 0 THEN IntMax
              ELSE IF length < ChunkSize \div 4
              THEN (ChunkSize \div 4 - KdsHead) \div SlotWidth
              ELSE IF length > ChunkSizeLimit THEN small_nitems
              ELSE result_nitems0
          oitems_nums ==
              IF shrink
              THEN (oitems_nums1 * small_nitems) \div result_nitems0
              ELSE oitems_nums1
      IN  IF shrink /\ oitems_nums < 1 THEN Failed("error")
          ELSE IF pds_dst = NoStore
          THEN Attached(oitems_nums,
                        DstStore(KDS_FORMAT_SLOT, SlotLength(result_nitems),
                                 result_nitems))
          ELSE Attached(oitems_nums,
                        ResetDstStore(pds_dst, SlotLength(result_nitems),
                                      result_nitems))
    ELSE
      IF pds_dst # NoStore /\ pds_dst.nitems = 0 THEN Failed("fpe")
      ELSE
      LET result_width ==
              IF pds_dst = NoStore THEN g.result_width
              ELSE (pds_dst.usage - KdsHead - pds_dst.nitems)
                       \div pds_dst.nitems
          new_length0 == RowLength(result_nitems0, result_width)
          new_length ==
              IF new_length0 < ChunkSize \div 4 THEN ChunkSize \div 4
              ELSE IF new_length0 > ChunkSizeLimit THEN ChunkSizeLimit
              ELSE new_length0
      IN  IF pds_dst = NoStore
          THEN Attached(oitems_nums1,
                        DstStore(KDS_FORMAT_ROW, new_length, IntMax))
          ELSE Attached(oitems_nums1,
                        ResetDstStore(pds_dst, new_length, IntMax))

\* the kern_resultbuf pair of oitems_nums0 outer rows, reduced when the
\* kern_gpujoin would be longer than a chunk
AttachKresults(g, task, oitems_nums0, total_items0, dst_nrows_ratio) ==
    LET kgjoin_length == KgjoinHead + 2 * ResultbufLength(total_items0)
        too_large == kgjoin_length > ChunkSize
        reduced_items == (ChunkSize - KgjoinHead) \div 2 - ResultbufHead
        oitems_nums1 ==
            IF too_large
            THEN (oitems_nums0 * reduced_items) \div total_items0
            ELSE oitems_nums0
        total_items == IF too_large THEN reduced_items ELSE total_items0
        Reduced(oitems_nums) ==
            IF too_large /\ oitems_nums < 1
            THEN [task |-> task, err |-> "error"]
            ELSE AttachDstStore(g, task, oitems_nums, total_items,
                                ExpectedItems(dst_nrows_ratio, oitems_nums))
    IN  Reduced(oitems_nums1)

gpujoin_attach_result_buffer(g, task) ==
    LET oitems_nums0 ==
            IF task.pds_src # NoChunk
            THEN task.pds_src.nitems - task.oitems_base
            ELSE InnerNitems - task.oitems_base
        Estimated(ratios) ==
            AttachKresults(g, task, oitems_nums0,
                           ExpectedItems(ratios[1], oitems_nums0), ratios[2])
    IN  Estimated(RatiosWithPrevious(g, task))

(***************************************************************************)
(* The host state the handlers work on, passed as one record:              *)
(*   g  GpuJoinState, pm the pgstrom_multirels objects, tk the             *)
(*   pgstrom_gpujoin objects, pq the pending queue, c the executor's       *)
(*   control state, ret the value the last call returned.                  *)
(* Fields named h_* are history: they record what happened and are read by *)
(* no handler.                                                             *)
(***************************************************************************)
\* one request on a task's CUDA stream: the call, the depth it is for (0
\* when it is for none) and the device a peer copy reads from.  h_stream of
\* a task holds the requests of its launch until the callback has run.
StreamOp(op, depth, dev) == [op |-> op, depth |-> depth, dev |-> dev]

NewTask(p, pds_src, oitems_base) ==
    [pmrels |-> p, pds_src |-> pds_src, pds_dst |-> NoStore,
     oitems_base |-> oitems_base, oitems_nums |-> OitemsNumsUnset,
     kern |-> [kresults_total_items |-> 0, kresults_max_items |-> 0,
               kerror |-> StromError_Success, outer_nitems |-> ZeroNitems],
     kerror |-> StromError_Success, cuda_index |-> NULL,
     m_kgjoin |-> FALSE, m_kmrels |-> FALSE, m_ojmaps |-> FALSE,
     released |-> FALSE, h_attempts |-> 0, h_from |-> NULL,
     h_done |-> FALSE, h_src |-> pds_src, h_src_released |-> FALSE,
     h_dst_released |-> FALSE,
     h_range |-> <<0, 0>>, h_stream |-> <<>>]

Abort(S, why) == [S EXCEPT !.c.aborted = IF @ = "none" THEN why ELSE @]

\* multirels_attach_buffer
\* an attach that does not count the new holder
multirels_attach_buffer_uncounted(S, p) == S

multirels_attach_buffer(S, p) == [S EXCEPT !.pm[p].n_attached = @ + 1]

\* gpujoin_create_task: the new task's id is returned in ret
gpujoin_create_task(S, p, pds_src, oitems_base) ==
    LET Created(S1, r) ==
            IF r.err = "none"
            THEN [S1 EXCEPT !.tk = Append(@, r.task), !.ret = Len(S.tk) + 1]
            ELSE Abort([S1 EXCEPT !.tk = Append(@, r.task),
                                  !.ret = Len(S.tk) + 1], r.err)
    IN  Created(multirels_attach_buffer(S, p),
                gpujoin_attach_result_buffer(S.g,
                    NewTask(p, pds_src, oitems_base)))

(***************************************************************************)
(* multirels_get_buffer / multirels_put_buffer / multirels_send_buffer.    *)
(* gpuMemAlloc may fail: mem says which allocation of this call fails, or  *)
(* that the synchronous cuMemsetD32 raises an error.                       *)
(***************************************************************************)
\* a get_buffer that returns false when the outer-join map cannot be
\* allocated and leaves the mirror it had just allocated in place
multirels_get_buffer_keeps_mirror(S, p, t, mem) ==
    LET dev == S.tk[t].cuda_index
        pmr == S.pm[p]
        need_ojmaps == pmr.ojmap_length > 0 /\ ~pmr.m_ojmaps[dev]
        Got(pm1) ==
            [S EXCEPT !.pm[p] = [pm1 EXCEPT !.refcnt[dev] = @ + 1],
                      !.tk[t].m_kmrels = TRUE,
                      !.tk[t].m_ojmaps = pm1.m_ojmaps[dev],
                      !.ret = TRUE]
    IN  IF pmr.refcnt[dev] = 0
        THEN IF mem = "no_kmrels" THEN [S EXCEPT !.ret = FALSE]
             ELSE IF need_ojmaps /\ mem = "no_ojmaps"
             THEN [S EXCEPT !.pm[p].m_kmrels[dev] = TRUE, !.ret = FALSE]
             ELSE IF need_ojmaps /\ mem = "memset_error"
             THEN Abort([S EXCEPT !.ret = FALSE], "error")
             ELSE Got([pmr EXCEPT
                          !.m_ojmaps[dev] = IF need_ojmaps THEN TRUE ELSE @,
                          !.h_ojmap_allocs[dev] =
                              IF need_ojmaps THEN Count(@) ELSE @,
                          !.m_kmrels[dev] = TRUE,
                          !.h_allocs[dev] = Count(@)])
        ELSE Got(pmr)

multirels_get_buffer(S, p, t, mem) ==
    LET dev == S.tk[t].cuda_index
        pmr == S.pm[p]
        need_ojmaps == pmr.ojmap_length > 0 /\ ~pmr.m_ojmaps[dev]
        Got(pm1) ==
            [S EXCEPT !.pm[p] = [pm1 EXCEPT !.refcnt[dev] = @ + 1],
                      !.tk[t].m_kmrels = TRUE,
                      !.tk[t].m_ojmaps = pm1.m_ojmaps[dev],
                      !.ret = TRUE]
    IN  IF pmr.refcnt[dev] = 0
        THEN IF mem = "no_kmrels" THEN [S EXCEPT !.ret = FALSE]
             ELSE IF need_ojmaps /\ mem = "no_ojmaps"
             THEN [S EXCEPT !.ret = FALSE]
             ELSE IF need_ojmaps /\ mem = "memset_error"
             THEN Abort([S EXCEPT !.ret = FALSE], "error")
             ELSE Got([pmr EXCEPT
                          !.m_ojmaps[dev] = IF need_ojmaps THEN TRUE ELSE @,
                          !.h_ojmap_allocs[dev] =
                              IF need_ojmaps THEN Count(@) ELSE @,
                          !.m_kmrels[dev] = TRUE,
                          !.h_allocs[dev] = Count(@)])
        ELSE Got(pmr)

\* a put that frees the mirror whatever the reference count is
multirels_put_buffer_frees_always(S, p, t) ==
    LET dev == S.tk[t].cuda_index
    IN  [S EXCEPT !.pm[p].refcnt[dev] = @ - 1,
                  !.pm[p].m_kmrels[dev] = FALSE,
                  !.pm[p].h_frees[dev] = Count(@),
                  !.pm[p].ev_loaded[dev] = FALSE]

\* a put that frees the outer-join map together with the mirror
multirels_put_buffer_frees_ojmaps(S, p, t) ==
    LET dev == S.tk[t].cuda_index
        pmr == S.pm[p]
    IN  IF pmr.refcnt[dev] - 1 = 0
        THEN [S EXCEPT !.pm[p].refcnt[dev] = 0,
                       !.pm[p].m_kmrels[dev] = FALSE,
                       !.pm[p].m_ojmaps[dev] = FALSE,
                       !.pm[p].h_frees[dev] = Count(@),
                       !.pm[p].ev_loaded[dev] = FALSE]
        ELSE [S EXCEPT !.pm[p].refcnt[dev] = @ - 1]

multirels_put_buffer(S, p, t) ==
    LET dev == S.tk[t].cuda_index
        pmr == S.pm[p]
    IN  IF pmr.refcnt[dev] - 1 = 0
        THEN [S EXCEPT !.pm[p].refcnt[dev] = 0,
                       !.pm[p].m_kmrels[dev] = FALSE,
                       !.pm[p].h_frees[dev] = Count(@),
                       !.pm[p].ev_loaded[dev] = FALSE]
        ELSE [S EXCEPT !.pm[p].refcnt[dev] = @ - 1]

\* a send that uploads whether or not the event exists
multirels_send_buffer_always(S, p, t) ==
    [S EXCEPT !.pm[p].ev_loaded[S.tk[t].cuda_index] = TRUE,
              !.pm[p].h_uploads[S.tk[t].cuda_index] = Count(@),
              !.tk[t].h_stream =
                  @ \o <<StreamOp("cuMemcpyHtoDAsync_kmrels", 0, 0),
                         StreamOp("cuEventRecord", 0, 0)>>]

multirels_send_buffer(S, p, t) ==
    LET dev == S.tk[t].cuda_index
    IN  IF ~S.pm[p].ev_loaded[dev]
        THEN [S EXCEPT !.pm[p].ev_loaded[dev] = TRUE,
                       !.pm[p].h_uploads[dev] = Count(@),
                       !.tk[t].h_stream =
                           @ \o <<StreamOp("cuMemcpyHtoDAsync_kmrels", 0, 0),
                                  StreamOp("cuEventRecord", 0, 0)>>]
        ELSE [S EXCEPT !.tk[t].h_stream =
                           @ \o <<StreamOp("cuStreamWaitEvent", 0, 0)>>]

\* a cleanup that forgets the task's reference to the mirror
gpujoin_cleanup_without_put(S, t) ==
    [S EXCEPT !.tk[t].m_kgjoin = FALSE, !.tk[t].m_kmrels = FALSE]

\* gpujoin_cleanup_cuda_resources
gpujoin_cleanup_cuda_resources(S, t) ==
    LET S1 == IF S.tk[t].m_kmrels
              THEN multirels_put_buffer(S, S.tk[t].pmrels, t)
              ELSE S
    IN  [S1 EXCEPT !.tk[t].m_kgjoin = FALSE,
                   !.tk[t].m_kmrels = FALSE]

(***************************************************************************)
(* multirels_detach_buffer: may enqueue the OUTER JOIN task (a task with   *)
(* pds_src == NULL) before the reference is dropped.                       *)
(***************************************************************************)
multirels_detach_buffer(S, p, may_kick_outer_join) ==
    LET kick == may_kick_outer_join
                /\ S.pm[p].n_attached = 1
                /\ S.pm[p].outer_join_kicked = FALSE
        Kicked(Sc) == [Sc EXCEPT !.pq = dlist_push_tail(@, Sc.ret),
                                 !.pm[p].outer_join_kicked = TRUE,
                                 !.pm[p].h_sweeps = Count(@)]
        Dropped(S1) ==
            IF S1.pm[p].n_attached - 1 = 0
            THEN [S1 EXCEPT !.pm[p].n_attached = 0,
                            !.pm[p].m_ojmaps = [d \in Devs |-> FALSE],
                            !.pm[p].freed = TRUE]
            ELSE [S1 EXCEPT !.pm[p].n_attached = @ - 1]
    IN  Dropped(IF kick THEN Kicked(gpujoin_create_task(S, p, NoChunk, 0))
                ELSE S)

\* gpujoin_task_release
gpujoin_task_release(S, t) ==
    LET Detached(S1) ==
            IF S1.tk[t].pmrels # NULL
            THEN multirels_detach_buffer(S1, S1.tk[t].pmrels, FALSE)
            ELSE S1
        \* pgstrom_release_data_store(pgjoin->pds_src), pfree(pgjoin)
        Released(S2) ==
            [S2 EXCEPT !.tk[t].h_src_released = S2.tk[t].pds_src # NoChunk,
                       !.tk[t].h_dst_released = S2.tk[t].pds_dst # NoStore,
                       !.tk[t].released = TRUE]
    IN  Released(Detached(gpujoin_cleanup_cuda_resources(S, t)))

(***************************************************************************)
(* gpujoin_task_process and __gpujoin_task_process.  how is what the       *)
(* driver does to this call: "ok", an allocation that fails ("no_kmrels",  *)
(* "no_ojmaps", "no_kgjoin"), or a CUDA call that raises an error          *)
(* ("memset_error" inside multirels_get_buffer, "launch_error" after the   *)
(* task's own device memory was allocated).                                *)
(***************************************************************************)
\* the peer copies of multirels_colocate_outer_join_maps, device i onwards
RECURSIVE ColocateOps(_, _, _, _)
ColocateOps(pmr, cuda_index, depth, i) ==
    IF i > NDev THEN <<>>
    ELSE (IF i = cuda_index \/ ~pmr.m_ojmaps[i] THEN <<>>
          ELSE <<StreamOp("cuMemcpyPeerAsync", depth, i)>>)
         \o ColocateOps(pmr, cuda_index, depth, i + 1)

\* the outer-join kernel of a depth before the maps of the other devices
\* were copied
OuterJoinKernelsCopyLate(pmr, cuda_index, depth, kernel) ==
    <<StreamOp(kernel, depth, 0)>>
        \o ColocateOps(pmr, cuda_index, depth, 1)

\* if (join_type == JOIN_RIGHT || join_type == JOIN_FULL): the maps are
\* gathered, then the outer-join kernel is launched
OuterJoinKernels(pmr, cuda_index, depth, kernel) ==
    ColocateOps(pmr, cuda_index, depth, 1)
        \o <<StreamOp(kernel, depth, 0)>>

\* the body of the loop over the depths: what one depth puts on the stream
DepthKernels(g, pmr, task, depth) ==
    LET is_nestloop == ~g.hash_outer_keys[depth]
        probes == task.pds_src # NoChunk \/ depth > g.outer_join_start_depth
    IN  <<StreamOp("gpujoin_preparation", depth, 0)>>
        \o (IF probes
            THEN <<StreamOp(IF is_nestloop THEN "gpujoin_exec_nestloop"
                            ELSE "gpujoin_exec_hashjoin", depth, 0)>>
            ELSE <<>>)
        \o (IF IsRightOuter(g.join_type[depth])
            THEN OuterJoinKernels(pmr, task.cuda_index, depth,
                                  IF is_nestloop THEN "gpujoin_outer_nestloop"
                                  ELSE "gpujoin_outer_hashjoin")
            ELSE <<>>)

\* for (depth = start_depth; depth <= gjs->num_rels; depth++)
RECURSIVE KernelLoop(_, _, _, _)
KernelLoop(g, pmr, task, depth) ==
    IF depth > NumRels THEN <<>>
    ELSE DepthKernels(g, pmr, task, depth)
         \o KernelLoop(g, pmr, task, depth + 1)

\* what __gpujoin_task_process puts on the stream after the inner relations
EnqueuedRequests(g, pmr, task) ==
    <<StreamOp("cuMemcpyHtoDAsync_kgjoin", 0, 0)>>
    \o (IF task.pds_src # NoChunk
        THEN <<StreamOp("cuMemcpyHtoDAsync_kds_src", 0, 0)>> ELSE <<>>)
    \o <<StreamOp("cuMemcpyHtoDAsync_kds_dst", 0, 0)>>
    \o KernelLoop(g, pmr, task, g.outer_join_start_depth)
    \o <<StreamOp("gpujoin_projection", 0, 0),
         StreamOp("cuMemcpyDtoHAsync_kgjoin", 0, 0),
         StreamOp("cuMemcpyDtoHAsync_kds_dst", 0, 0),
         StreamOp("cuStreamAddCallback", 0, 0)>>

gpujoin_task_process_inner(S, t, how) ==
    IF how = "no_kgjoin"
    THEN \* out_of_resource:
         [gpujoin_cleanup_cuda_resources(S, t) EXCEPT !.ret = FALSE]
    ELSE
      LET Sent(S2) ==
              IF how = "launch_error"
              THEN Abort([S2 EXCEPT !.ret = FALSE], "error")
              ELSE [S2 EXCEPT
                       !.tk[t].h_attempts = Count(@),
                       !.tk[t].h_stream =
                           @ \o EnqueuedRequests(S2.g,
                                    S2.pm[S2.tk[t].pmrels], S2.tk[t]),
                       !.ret = TRUE]
          Allocated(S1) == Sent(multirels_send_buffer(S1, S1.tk[t].pmrels, t))
      IN  Allocated([S EXCEPT !.tk[t].m_kgjoin = TRUE,
                              !.tk[t].h_stream = <<>>])

gpujoin_task_process(S, t, how) ==
    LET S1 == multirels_get_buffer(S, S.tk[t].pmrels, t, how)
        S2 == IF S1.c.aborted = "none" /\ S1.ret
              THEN gpujoin_task_process_inner(S1, t, how)
              ELSE [S1 EXCEPT !.ret = FALSE]
    IN  IF S2.c.aborted # "none"
        THEN \* PG_CATCH
             gpujoin_cleanup_cuda_resources(S2, t)
        ELSE S2

(***************************************************************************)
(* The device side of one attempt: the kernels admit the outer rows        *)
(* [oitems_base, oitems_base + oitems_nums) of the source chunk, each      *)
(* joins with fan inner rows at every depth; the outer-join task emits the *)
(* inner rows of its start depth.  Every intermediate row of depth i takes *)
(* i + 1 entries of the kern_resultbuf.  A buffer that is too small is     *)
(* reported by the kerror status, with what was consumed.                  *)
(***************************************************************************)
RECURSIVE Copies(_, _)
Copies(x, n) == IF n <= 0 THEN <<>> ELSE <<x>> \o Copies(x, n - 1)

RECURSIVE JoinRows(_, _, _)
JoinRows(first, n, fan) ==
    IF n <= 0 THEN <<>>
    ELSE Copies(first, fan) \o JoinRows(first + 1, n - 1, fan)

AdmittedRows(task) ==
    IF task.pds_src = NoChunk THEN 0
    ELSE Max(0, Min(task.oitems_base + task.oitems_nums,
                    task.pds_src.nitems) - task.oitems_base)

ExpectedRows(c, g, task) ==
    IF task.pds_src = NoChunk
    THEN Copies(0, task.oitems_nums)
    ELSE JoinRows(task.pds_src.first + task.oitems_base,
                  AdmittedRows(task), c.fan)

RECURSIVE MaxResultItems(_, _, _)
MaxResultItems(nitems, i, acc) ==
    IF i > NumRels THEN acc
    ELSE MaxResultItems(nitems, i + 1,
                        Max(acc, (i + 1) * OuterNitems(nitems, i)))

DeviceRun(c, g, task) ==
    LET out == ExpectedRows(c, g, task)
        cnt == Len(out)
        nitems == [k \in 1..(NumRels + 1) |->
                      IF task.pds_src = NoChunk
                      THEN IF k - 1 < g.outer_join_start_depth THEN 0 ELSE cnt
                      ELSE IF k = 1 THEN AdmittedRows(task) ELSE cnt]
        max_items == MaxResultItems(nitems, 0, 0)
        dst == task.pds_dst
        kern1 == [task.kern EXCEPT !.kresults_max_items = max_items,
                                   !.outer_nitems = nitems]
        Done(status, store) ==
            [task EXCEPT !.kern = [kern1 EXCEPT !.kerror = status],
                         !.pds_dst = store]
    IN  IF max_items > task.kern.kresults_total_items
        THEN Done(StromError_DataStoreNoSpace, dst)
        ELSE IF dst.format = KDS_FORMAT_SLOT
        THEN LET fit == Max(0, Min(cnt, dst.nrooms - dst.nitems))
                 store == [dst EXCEPT !.nitems = @ + cnt,
                                      !.rows = @ \o SubSeq(out, 1, fit)]
             IN  Done(IF fit < cnt THEN StromError_DataStoreNoSpace
                      ELSE StromError_Success, store)
        ELSE LET start == IF dst.usage = 0 THEN KdsHead ELSE dst.usage
                 width == 1 + TupItemHead + c.tup_width
                 fit == Max(0, Min(cnt, (dst.length - start) \div width))
                 store == [dst EXCEPT !.nitems = @ + cnt,
                                      !.usage = start + cnt * width,
                                      !.rows = @ \o SubSeq(out, 1, fit)]
             IN  Done(IF fit < cnt THEN StromError_DataStoreNoSpace
                      ELSE StromError_Success, store)

\* gpujoin_task_respond, first half: the status the callback records
RespondStatus(c, g, task, status) ==
    IF status = "ok"
    THEN LET Responded(done) ==
                 [done EXCEPT !.kerror = done.kern.kerror, !.h_stream = <<>>]
         IN  Responded(DeviceRun(c, g, task))
    ELSE [task EXCEPT !.kerror = CudaError, !.h_stream = <<>>]

(***************************************************************************)
(* gpujoin_task_complete.  ret is the callback's return value.  A          *)
(* successful task without a source chunk dereferences pds_src == NULL:    *)
(* ub is what the build makes of it ("segv", or "zero": the load yields    *)
(* nitems = 0).                                                            *)
(***************************************************************************)
\* an update that leaves the statistics as they were
AddNitemsKeeps(a, b) == a

AddNitems(a, b) == [k \in 1..(NumRels + 1) |-> a[k] + b[k]]

RecordAdmitted(h_admitted, first, n) ==
    [r \in 1..NOuter |->
        IF r >= first /\ r < first + n THEN h_admitted[r] + 1
        ELSE h_admitted[r]]

\* a completion that leaves the outer chunk with the completed task
KeepSource(S, t) == S

\* pgjoin->pds_src = NULL
UnlinkSource(S, t) == [S EXCEPT !.tk[t].pds_src = NoChunk]

\* a completion that queues a failed task again
RequeueFailure(S, t) == [S EXCEPT !.pq = dlist_push_head(@, t), !.ret = FALSE]

\* return true; with task.kerror left as the device reported it
ReturnFailure(S, t) == [S EXCEPT !.ret = TRUE]

gpujoin_task_complete(S, t, ub) ==
    LET S1 == gpujoin_cleanup_cuda_resources(S, t)
        task == S1.tk[t]
    IN
    IF task.kerror = StromError_Success
    THEN
      IF task.pds_src = NoChunk /\ ub = "segv"
      THEN Abort([S1 EXCEPT !.ret = FALSE], "segv")
      ELSE
      LET kds_nitems == IF task.pds_src = NoChunk THEN 0
                        ELSE task.pds_src.nitems
          source_nitems ==
              Min(task.oitems_base + task.oitems_nums, kds_nitems)
                  - task.oitems_base
          S2 == [S1 EXCEPT
                    !.g.source_nitems = @ + source_nitems,
                    !.g.outer_nitems = AddNitems(@, task.kern.outer_nitems),
                    !.pm[task.pmrels].h_admitted =
                        IF task.pds_src = NoChunk THEN @
                        ELSE RecordAdmitted(@,
                                 task.pds_src.first + task.oitems_base,
                                 source_nitems),
                    !.tk[t].h_range =
                        IF task.pds_src = NoChunk THEN <<0, task.oitems_nums>>
                        ELSE <<task.pds_src.first + task.oitems_base,
                               source_nitems>>,
                    !.tk[t].h_done = TRUE,
                    !.ret = TRUE]
          Continued(S4) == [S4 EXCEPT !.tk[S4.ret].h_from = t,
                                      !.pq = dlist_push_tail(@, S4.ret),
                                      !.ret = TRUE]
      IN  IF task.oitems_base + task.oitems_nums < kds_nitems
          THEN Continued(gpujoin_create_task(
                   UnlinkSource(S2, t), task.pmrels,
                   task.pds_src, task.oitems_base + task.oitems_nums))
          ELSE S2
    ELSE IF task.kerror = StromError_DataStoreNoSpace
    THEN LET Requeued(r) ==
                 IF r.err = "none"
                 THEN [S1 EXCEPT !.tk[t] = r.task,
                                 !.pq = dlist_push_head(@, t),
                                 !.ret = FALSE]
                 ELSE Abort([S1 EXCEPT !.tk[t] = r.task,
                                       !.pq = dlist_push_head(@, t),
                                       !.ret = FALSE], r.err)
         IN  Requeued(gpujoin_attach_result_buffer(S1.g, task))
    ELSE ReturnFailure(S1, t)

(***************************************************************************)
(* gpujoin_inner_preload.  The inner relations are loaded by the first     *)
(* call into pds_list (one list of sub-chunks per depth); later calls      *)
(* advance pds_index.  ret is the new pgstrom_multirels, or NULL.          *)
(***************************************************************************)
\* the preload loop of the first call: every depth ends with its list
LoadInnerRelations(c, g) ==
    [g EXCEPT !.pds_list =
                  [d \in Depths |->
                      IF g.pds_list[d] = <<>>
                      THEN [k \in 1..c.nbatches[d] |-> k]
                      ELSE g.pds_list[d]],
              !.pds_index = [d \in Depths |-> 1]]

\* for (j=i+1; j < num_rels; j++) gjs->inners[i].pds_index = 1;
RECURSIVE ResetLoop(_, _, _)
ResetLoop(pds_index, i, j) ==
    IF j > NumRels THEN pds_index
    ELSE ResetLoop([pds_index EXCEPT ![i] = 1], i, j + 1)

\* for (i=num_rels-1; i >= 0; i--): <<pds_index, i>>, i = 0 at the end
RECURSIVE AdvanceLoop(_, _)
AdvanceLoop(g, i) ==
    IF i < 1 THEN <<g.pds_index, 0>>
    ELSE IF g.pds_index[i] < Len(g.pds_list[i])
    THEN <<ResetLoop([g.pds_index EXCEPT ![i] = @ + 1], i, i + 1), i>>
    ELSE AdvanceLoop(g, i - 1)

RECURSIVE OjmapLength(_, _)
OjmapLength(join_type, d) ==
    IF d > NumRels THEN 0
    ELSE (IF IsRightOuter(join_type[d]) THEN InnerNitems * NDev ELSE 0)
         + OjmapLength(join_type, d + 1)

\* pds = linitial(istate->pds_list)
InnerChunkOf(g, d) == Head(g.pds_list[d])

\* gpujoin_create_multirels and the loop that fills it
NewMultirels(g) ==
    [inner_chunks |-> [d \in Depths |-> InnerChunkOf(g, d)],
     ojmap_length |-> OjmapLength(g.join_type, 1),
     outer_join_kicked |-> FALSE,
     n_attached |-> 1,
     refcnt |-> [d \in Devs |-> 0],
     m_kmrels |-> [d \in Devs |-> FALSE],
     ev_loaded |-> [d \in Devs |-> FALSE],
     m_ojmaps |-> [d \in Devs |-> FALSE],
     freed |-> FALSE,
     h_window |-> g.pds_index,
     h_admitted |-> [r \in 1..NOuter |-> 0],
     h_sweeps |-> 0,
     h_allocs |-> [d \in Devs |-> 0],
     h_frees |-> [d \in Devs |-> 0],
     h_uploads |-> [d \in Devs |-> 0],
     h_ojmap_allocs |-> [d \in Devs |-> 0]]

gpujoin_inner_preload(c, S) ==
    LET adv == AdvanceLoop(S.g, NumRels)
        g1 == IF S.g.curr_pmrels = NULL
              THEN LoadInnerRelations(c, S.g)
              ELSE [S.g EXCEPT !.pds_index = adv[1]]
    IN  IF S.g.curr_pmrels # NULL /\ adv[2] < 1
        THEN [S EXCEPT !.ret = NULL]
        ELSE [S EXCEPT !.g = g1,
                       !.pm = Append(@, NewMultirels(g1)),
                       !.ret = Len(S.pm) + 1]

(***************************************************************************)
(* gpujoin_next_chunk.  The outer relation is rows 1..NOuter; outer_pos is *)
(* the row ExecProcNode returns next.  An outer chunk holds at most        *)
(* OuterChunkRows rows (pgstrom_data_store_insert_tuple fails on a full    *)
(* chunk).  ret is the new task, or NULL at the end of the scan.           *)
(***************************************************************************)
\* a scan that drops the row that did not fit into the chunk
RECURSIVE ScanLoopDropsOverflow(_, _)
ScanLoopDropsOverflow(g, pds) ==
    LET slot == g.outer_pos
        g1 == [g EXCEPT !.outer_pos = IF slot > NOuter THEN @ ELSE @ + 1]
    IN  IF slot > NOuter
        THEN <<[g1 EXCEPT !.scan_done = TRUE], pds>>
        ELSE LET pds1 == IF pds = NoChunk THEN OuterChunk(slot, 0) ELSE pds
             IN  IF pds1.nitems >= OuterChunkRows
                 THEN <<g1, pds1>>
                 ELSE ScanLoopDropsOverflow(g1, [pds1 EXCEPT !.nitems = @ + 1])

\* while (true) { ... } of the row-by-row scan; pds is NoChunk or the chunk
RECURSIVE ScanLoop(_, _)
ScanLoop(g, pds) ==
    LET from_overflow == g.scan_overflow # NULL
        slot == IF from_overflow THEN g.scan_overflow ELSE g.outer_pos
        g1 == IF from_overflow THEN [g EXCEPT !.scan_overflow = NULL]
              ELSE [g EXCEPT !.outer_pos = IF slot > NOuter THEN @ ELSE @ + 1]
    IN  IF ~from_overflow /\ slot > NOuter
        THEN <<[g1 EXCEPT !.scan_done = TRUE], pds>>
        ELSE LET pds1 == IF pds = NoChunk THEN OuterChunk(slot, 0) ELSE pds
             IN  IF pds1.nitems >= OuterChunkRows
                 THEN <<[g1 EXCEPT !.scan_overflow = slot], pds1>>
                 ELSE ScanLoop(g1, [pds1 EXCEPT !.nitems = @ + 1])

\* pds = BulkExecProcNode(outer_node)
BulkScan(g) ==
    IF g.outer_pos > NOuter
    THEN <<[g EXCEPT !.scan_done = TRUE], NoChunk>>
    ELSE LET n == Min(OuterChunkRows, NOuter + 1 - g.outer_pos)
         IN  <<[g EXCEPT !.outer_pos = @ + n], OuterChunk(g.outer_pos, n)>>

RECURSIVE gpujoin_next_chunk(_, _)
gpujoin_next_chunk(c, S) ==
    LET renew == S.g.scan_done \/ S.g.curr_pmrels = NULL
        Detached(Sp) ==
            IF Sp.g.curr_pmrels # NULL
            THEN [multirels_detach_buffer(Sp, Sp.g.curr_pmrels, TRUE)
                     EXCEPT !.g.curr_pmrels = NULL]
            ELSE Sp
        Rewound(Sd, pmrels_new) ==
            [Sd EXCEPT !.g.curr_pmrels = pmrels_new,
                       !.g.outer_pos = IF Sd.g.scan_done THEN 1 ELSE @,
                       !.g.scan_done = FALSE]
        Chunk(S2, pds) ==
            IF pds = NoChunk THEN gpujoin_next_chunk(c, S2)
            ELSE gpujoin_create_task(S2, S2.g.curr_pmrels, pds, 0)
        Scanned(S1, scan) == Chunk([S1 EXCEPT !.g = scan[1]], scan[2])
        Scan(S1) ==
            IF Len(S1.pm) > MaxPmrels THEN [S1 EXCEPT !.ret = NULL]
            ELSE Scanned(S1, IF S1.g.scan_bulk THEN BulkScan(S1.g)
                             ELSE ScanLoop(S1.g, NoChunk))
        Renewed(Sd, pmrels_new) ==
            IF pmrels_new = NULL THEN [Sd EXCEPT !.ret = NULL]
            ELSE Scan(Rewound(Sd, pmrels_new))
        Preloaded(Sp) == Renewed(Detached(Sp), Sp.ret)
    IN  IF renew THEN Preloaded(gpujoin_inner_preload(c, S)) ELSE Scan(S)

(***************************************************************************)
(* gpujoin_task_respond: from the running queue to the completed queue.    *)
(* Returns <<running, completed>>.                                         *)
(***************************************************************************)
RECURSIVE Without(_, _)
Without(q, t) ==
    IF q = <<>> THEN <<>>
    ELSE IF Head(q) = t THEN Tail(q)
    ELSE <<Head(q)>> \o Without(Tail(q), t)

\* a callback that queues every task at the tail, whatever its status
gpujoin_task_respond_tail(running, completed, t, kerror) ==
    <<Without(running, t), dlist_push_tail(completed, t)>>

gpujoin_task_respond(running, completed, t, kerror) ==
    <<Without(running, t),
      IF kerror = StromError_Success THEN dlist_push_tail(completed, t)
      ELSE dlist_push_head(completed, t)>>

(***************************************************************************)
(* The joins the model runs: the planner's choices and the true data.      *)
(***************************************************************************)
JoinTypesWith(k, jt) == [d \in Depths |-> IF d = k THEN jt ELSE JOIN_INNER]

\* the number of sub-chunks of every depth: n at depth k, one elsewhere
BatchesWith(k, n) == [d \in Depths |-> IF d = k THEN n ELSE 1]

Scenario(join_type, nbatches, fan, result_format, tup_width, scan_bulk, ndev) ==
    [join_type |-> join_type, nbatches |-> nbatches, fan |-> fan,
     result_format |-> result_format, plan_width |-> PlanWidth,
     tup_width |-> tup_width, scan_bulk |-> scan_bulk, ndev |-> ndev,
     nestloop |-> [d \in Depths |-> FALSE]]

Configs ==
    {Scenario(JoinTypesWith(1, JOIN_INNER), BatchesWith(1, 1), 1,
              KDS_FORMAT_SLOT, PlanWidth, FALSE, NDev),
     Scenario(JoinTypesWith(NumRels, JOIN_RIGHT), BatchesWith(1, 1), 3,
              KDS_FORMAT_SLOT, PlanWidth, FALSE, NDev),
     Scenario(JoinTypesWith(1, JOIN_FULL), BatchesWith(1, 1), 1,
              KDS_FORMAT_ROW, WideWidth, TRUE, 1),
     Scenario(JoinTypesWith(1, JOIN_LEFT), BatchesWith(NumRels, MaxBatches),
              1, KDS_FORMAT_SLOT, PlanWidth, TRUE, 1),
     Scenario(JoinTypesWith(1, JOIN_INNER), BatchesWith(1, MaxBatches), 1,
              KDS_FORMAT_ROW, PlanWidth, FALSE, 1),
     Scenario(JoinTypesWith(NumRels, JOIN_RIGHT),
              BatchesWith(NumRels, MaxBatches), 1, KDS_FORMAT_SLOT,
              PlanWidth, FALSE, 1)}

\* gpujoin_begin
InitGjs(c) ==
    [join_type |-> c.join_type,
     outer_join_start_depth |-> OuterJoinStartDepth(c.join_type),
     curr_pmrels |-> NULL,
     scan_done |-> FALSE,
     scan_overflow |-> NULL,
     scan_bulk |-> c.scan_bulk,
     outer_pos |-> 1,
     pds_list |-> [d \in Depths |-> <<>>],
     pds_index |-> [d \in Depths |-> 0],
     source_nitems |-> 0,
     outer_nitems |-> ZeroNitems,
     kresults_ratio |-> RInt(NumRels + 1),
     nrows_ratio |-> [d \in Depths |-> RInt(1)],
     outer_plan_nrows |-> NOuter,
     result_format |-> c.result_format,
     result_width |-> c.plan_width,
     hash_outer_keys |-> [d \in Depths |-> ~c.nestloop[d]]]

InitCtl ==
    [aborted |-> "none", eos |-> FALSE, curr_task |-> NULL, faults |-> 0,
     exec_bulk |-> FALSE, returned |-> NoStore, ended |-> FALSE,
     h_rescans |-> 0, h_keep |-> FALSE, h_fresh |-> FALSE,
     h_again |-> 0]

Init ==
    /\ cfg \in Configs
    /\ gjs = InitGjs(cfg)
    /\ pmrels = <<>>
    /\ tasks = <<>>
    /\ pending_tasks = <<>>
    /\ running_tasks = <<>>
    /\ completed_tasks = <<>>
    /\ ctl = InitCtl
    /\ oj = NULL
    /\ hp = NULL

Pack == [g |-> gjs, pm |-> pmrels, tk |-> tasks, pq |-> pending_tasks,
         c |-> ctl, ret |-> NULL]

Commit(S) ==
    /\ gjs' = S.g
    /\ pmrels' = S.pm
    /\ tasks' = S.tk
    /\ pending_tasks' = S.pq
    /\ ctl' = S.c

Running == ctl.aborted = "none" /\ ~ctl.ended

(***************************************************************************)
(* The executor: it asks for the next chunk while fewer than MaxAsync      *)
(* tasks wait or run, launches the head of the pending queue, takes the    *)
(* head of the completed queue, and releases the task it handed out.       *)
(***************************************************************************)
NextChunk ==
    /\ Running
    /\ ~ctl.eos
    /\ ctl.curr_task = NULL
    /\ pending_tasks = <<>>
    /\ completed_tasks = <<>>
    /\ Len(pending_tasks) + Len(running_tasks) < MaxAsync
    /\ LET Chained(S) ==
               /\ Len(S.pm) <= MaxPmrels
               /\ Len(S.tk) <= MaxTasks
               /\ Commit([S EXCEPT
                      !.pq = IF S.ret # NULL /\ S.c.aborted = "none"
                             THEN Append(@, S.ret) ELSE @,
                      !.c.h_fresh = IF S.ret # NULL THEN FALSE ELSE @,
                      !.c.eos = (S.ret = NULL /\ S.c.aborted = "none")])
       IN  Chained(gpujoin_next_chunk(cfg, Pack))
    /\ UNCHANGED <<cfg, running_tasks, completed_tasks, oj, hp>>

LaunchOutcomes ==
    {"ok", "no_kmrels", "no_ojmaps", "no_kgjoin", "memset_error",
     "launch_error"}

Launch(dev, how) ==
    /\ Running
    /\ ctl.curr_task = NULL
    /\ pending_tasks # <<>>
    /\ how # "ok" => ctl.faults < MaxFaults
    /\ LET t == Head(pending_tasks)
           Processed(S, launched) ==
               /\ Commit([S EXCEPT
                      !.pq = IF launched THEN Tail(@) ELSE @,
                      !.tk[t].cuda_index = IF launched THEN @ ELSE NULL,
                      !.c.faults = IF how = "ok" THEN @ ELSE @ + 1])
               /\ running_tasks' = IF launched THEN Append(running_tasks, t)
                                   ELSE running_tasks
           Returned(S) == Processed(S, S.c.aborted = "none" /\ S.ret)
       IN  Returned(gpujoin_task_process(
                        [Pack EXCEPT !.tk[t].cuda_index = dev], t, how))
    /\ UNCHANGED <<cfg, completed_tasks, oj, hp>>

Respond(t, status) ==
    /\ Running
    /\ \E k \in 1..Len(running_tasks) : running_tasks[k] = t
    /\ LET done == RespondStatus(cfg, gjs, tasks[t], status)
           q == gpujoin_task_respond(running_tasks, completed_tasks, t,
                                     done.kerror)
       IN  /\ tasks' = [tasks EXCEPT ![t] = done]
           /\ running_tasks' = q[1]
           /\ completed_tasks' = q[2]
    /\ UNCHANGED <<cfg, gjs, pmrels, pending_tasks, ctl, oj, hp>>

Complete(ub) ==
    /\ Running
    /\ ctl.curr_task = NULL
    /\ completed_tasks # <<>>
    /\ LET t == Head(completed_tasks)
           Taken(S) ==
               /\ Len(S.tk) <= MaxTasks
               /\ Commit(IF S.c.aborted # "none" THEN S
                         ELSE IF S.ret /\ S.tk[t].kerror # StromError_Success
                         THEN Abort(S, "kerror")
                         ELSE IF S.ret THEN [S EXCEPT !.c.curr_task = t]
                         ELSE S)
       IN  Taken(gpujoin_task_complete(Pack, t, ub))
    /\ completed_tasks' = Tail(completed_tasks)
    /\ UNCHANGED <<cfg, running_tasks, oj, hp>>

Release ==
    /\ Running
    /\ ~ctl.exec_bulk
    /\ ctl.curr_task # NULL
    /\ Commit([gpujoin_task_release(Pack, ctl.curr_task)
                  EXCEPT !.c.curr_task = NULL])
    /\ UNCHANGED <<cfg, running_tasks, completed_tasks, oj, hp>>

Next ==
    \/ NextChunk
    \/ \E dev \in 1..cfg.ndev, how \in LaunchOutcomes : Launch(dev, how)
    \/ \E t \in 1..Len(tasks), status \in {"ok", "cuda_error"} :
           Respond(t, status)
    \/ \E ub \in {"segv", "zero"} : Complete(ub)
    \/ Release

Spec == Init /\ [][Next]_vars

(***************************************************************************)
(* Rescan, end of the scan and the bulk interface.  The executor's         *)
(* pgstrom_cleanup_gputaskstate and pgstrom_release_gputaskstate release   *)
(* the tasks of all queues.  keep_pmrels is FALSE when a parameter of an   *)
(* inner relation has changed.                                             *)
(***************************************************************************)
RECURSIVE ReleaseTasks(_, _)
ReleaseTasks(S, q) ==
    IF q = <<>> THEN S
    ELSE ReleaseTasks(IF S.tk[Head(q)].released THEN S
                      ELSE gpujoin_task_release(S, Head(q)), Tail(q))

\* pgstrom_cleanup_gputaskstate: returns the state with empty queues
pgstrom_cleanup_gputaskstate(S, running, completed) ==
    LET Emptied(S1) == [S1 EXCEPT !.pq = <<>>, !.c.curr_task = NULL]
    IN  Emptied(ReleaseTasks(S, S.pq \o running \o completed
                                \o (IF S.c.curr_task = NULL THEN <<>>
                                    ELSE <<S.c.curr_task>>)))

\* a detach that may enqueue the OUTER JOIN task
RescanDetachKicks(S) == multirels_detach_buffer(S, S.g.curr_pmrels, TRUE)

\* multirels_detach_buffer(gjs->curr_pmrels, false)
RescanDetach(S) == multirels_detach_buffer(S, S.g.curr_pmrels, FALSE)

gpujoin_rescan(S, running, completed, keep_pmrels) ==
    LET Rewind(S1) == [S1 EXCEPT !.g.scan_done = FALSE,
                                 !.g.scan_overflow = NULL,
                                 !.g.outer_pos = 1]
        Detached(S2) ==
            IF S2.g.curr_pmrels # NULL
            THEN [RescanDetach(S2) EXCEPT !.g.curr_pmrels = NULL]
            ELSE S2
        Unloaded(S3) ==
            [S3 EXCEPT !.g.pds_list = [d \in Depths |-> <<>>],
                       !.g.pds_index = [d \in Depths |-> 0]]
        Inner(S2) == IF keep_pmrels THEN S2 ELSE Unloaded(Detached(S2))
    IN  Inner(Rewind(pgstrom_cleanup_gputaskstate(S, running, completed)))

gpujoin_end(S, running, completed) ==
    LET Detached(S1) == IF S1.g.curr_pmrels # NULL THEN RescanDetach(S1)
                        ELSE S1
    IN  pgstrom_cleanup_gputaskstate(Detached(S), running, completed)

\* a test that takes every destination store as one with rows
IsEmptyResultNever(pds_dst) == FALSE

\* pds_dst->kds->nitems == 0
IsEmptyResult(pds_dst) == pds_dst.nitems = 0

\* gpujoin_exec_bulk with the task t that pgstrom_fetch_gputask returned;
\* ret is the chunk it returns, NoStore when it goes to retry
gpujoin_exec_bulk(S, t) ==
    LET Forced(S1) == [S1 EXCEPT !.g.result_format = KDS_FORMAT_ROW]
        Returned(S1, pds_dst) ==
            [gpujoin_task_release([S1 EXCEPT !.tk[t].pds_dst = NoStore], t)
                EXCEPT !.ret = pds_dst]
        Fetched(S1) ==
            IF IsEmptyResult(S1.tk[t].pds_dst)
            THEN [gpujoin_task_release(S1, t) EXCEPT !.ret = NoStore]
            ELSE Returned(S1, S1.tk[t].pds_dst)
    IN  Fetched(Forced(S))

RescanConfigs ==
    {Scenario(JoinTypesWith(NumRels, JOIN_RIGHT),
              BatchesWith(NumRels, MaxBatches), 1, KDS_FORMAT_SLOT,
              PlanWidth, FALSE, 1),
     Scenario(JoinTypesWith(NumRels, JOIN_RIGHT), BatchesWith(1, 1), 0,
              KDS_FORMAT_SLOT, PlanWidth, TRUE, 1)}

\* the bulk interface forces the row format before it fetches a task
InitRescan ==
    /\ cfg \in RescanConfigs
    /\ \E exec_bulk \in BOOLEAN :
          /\ gjs = IF exec_bulk
                   THEN [InitGjs(cfg) EXCEPT !.result_format = KDS_FORMAT_ROW]
                   ELSE InitGjs(cfg)
          /\ ctl = [InitCtl EXCEPT !.exec_bulk = exec_bulk]
    /\ pmrels = <<>>
    /\ tasks = <<>>
    /\ pending_tasks = <<>>
    /\ running_tasks = <<>>
    /\ completed_tasks = <<>>
    /\ oj = NULL
    /\ hp = NULL

Rescan(keep_pmrels) ==
    /\ Running
    /\ ctl.h_rescans < MaxRescans
    /\ Commit([gpujoin_rescan(Pack, running_tasks, completed_tasks,
                              keep_pmrels)
                  EXCEPT !.c.eos = FALSE,
                         !.c.h_rescans = @ + 1,
                         !.c.h_keep = keep_pmrels,
                         !.c.h_fresh = TRUE])
    /\ running_tasks' = <<>>
    /\ completed_tasks' = <<>>
    /\ UNCHANGED <<cfg, oj, hp>>

End ==
    /\ Running
    /\ Commit([gpujoin_end(Pack, running_tasks, completed_tasks)
                  EXCEPT !.c.ended = TRUE])
    /\ running_tasks' = <<>>
    /\ completed_tasks' = <<>>
    /\ UNCHANGED <<cfg, oj, hp>>

ExecBulk ==
    /\ Running
    /\ ctl.exec_bulk
    /\ ctl.curr_task # NULL
    /\ LET Left(S) == Commit([S EXCEPT !.c.curr_task = NULL,
                                       !.c.returned = S.ret])
       IN  Left(gpujoin_exec_bulk(Pack, ctl.curr_task))
    /\ UNCHANGED <<cfg, running_tasks, completed_tasks, oj, hp>>

NextRescan ==
    \/ Next
    \/ \E keep_pmrels \in BOOLEAN : Rescan(keep_pmrels)
    \/ End
    \/ ExecBulk

SpecRescan == InitRescan /\ [][NextRescan]_vars

(***************************************************************************)
(* Outer-join maps.  Every device holds one buffer (m_ojmaps[dev]) with    *)
(* one region per device; lomap[dev][idx] is the set of inner rows whose   *)
(* byte is set in region idx of the buffer on dev.  The kernels of a task  *)
(* on device dev work on region dev of that buffer.                        *)
(***************************************************************************)
InnerRows == 1..InnerNitems

\* KERN_MULTIRELS_OUTER_JOIN_MAP(kern, depth, nitems, idx, m_ojmaps[dev])
KERN_MULTIRELS_OUTER_JOIN_MAP(o, idx, dev) == o.lomap[dev][idx]

\* cuMemcpyPeerAsync onto a region of the buffer on device dev
MemcpyPeer(o, dev, idx, src_lomap) == [o EXCEPT !.lomap[dev][idx] = src_lomap]

\* for (i=0; i < gcontext->num_context; i++) of the colocation
RECURSIVE ColocateLoop(_, _, _)
ColocateLoop(o, cuda_index, i) ==
    IF i > NDev THEN o
    ELSE IF i = cuda_index \/ ~o.m_ojmaps[i]
    THEN ColocateLoop(o, cuda_index, i + 1)
    ELSE ColocateLoop(
             MemcpyPeer(o, cuda_index, cuda_index,
                        KERN_MULTIRELS_OUTER_JOIN_MAP(o, i, i)),
             cuda_index, i + 1)

multirels_colocate_outer_join_maps(o, cuda_index) ==
    ColocateLoop(o, cuda_index, 1)

\* multirels_get_buffer, the outer-join map: allocated and zeroed on first use
GetOjmaps(o, dev) ==
    IF o.m_ojmaps[dev] THEN o
    ELSE [o EXCEPT !.m_ojmaps[dev] = TRUE,
                   !.lomap[dev] = [idx \in Devs |-> {}]]

\* the join kernel of a task with an outer chunk marks the rows it matched
MarkMatched(o, dev, matched) ==
    [o EXCEPT !.lomap[dev][dev] = @ \cup matched,
              !.h_matched = @ \cup matched]

\* the task runs on dev: the join kernel (not for the task without a
\* chunk), the colocation, then the outer-join kernel, which for the task
\* without a chunk emits the rows it sees unmatched
OjTaskProcess(o, dev, matched, sweep) ==
    LET o1 == GetOjmaps(o, dev)
        o2 == IF sweep THEN o1 ELSE MarkMatched(o1, dev, matched)
        o3 == multirels_colocate_outer_join_maps(o2, dev)
    IN  IF sweep
        THEN [o3 EXCEPT !.swept = dev,
                        !.seen = KERN_MULTIRELS_OUTER_JOIN_MAP(o3, dev, dev)]
        ELSE o3

OjConfig ==
    Scenario(JoinTypesWith(NumRels, JOIN_RIGHT), BatchesWith(1, 1), 1,
             KDS_FORMAT_SLOT, PlanWidth, FALSE, NDev)

InitOJ ==
    /\ cfg = OjConfig
    /\ gjs = InitGjs(cfg)
    /\ pmrels = <<>>
    /\ tasks = <<>>
    /\ pending_tasks = <<>>
    /\ running_tasks = <<>>
    /\ completed_tasks = <<>>
    /\ ctl = InitCtl
    /\ hp = NULL
    /\ oj = [m_ojmaps |-> [d \in Devs |-> FALSE],
             lomap |-> [d \in Devs |-> [idx \in Devs |-> {}]],
             h_matched |-> {},
             h_tasks |-> 0,
             swept |-> NULL,
             seen |-> {}]

OjProbe(dev, matched) ==
    /\ oj.swept = NULL
    /\ oj.h_tasks < MaxTasks
    /\ oj' = [OjTaskProcess(oj, dev, matched, FALSE) EXCEPT !.h_tasks = @ + 1]
    /\ UNCHANGED <<cfg, gjs, pmrels, tasks, pending_tasks, running_tasks,
                   completed_tasks, ctl, hp>>

OjSweep(dev) ==
    /\ oj.swept = NULL
    /\ oj' = OjTaskProcess(oj, dev, {}, TRUE)
    /\ UNCHANGED <<cfg, gjs, pmrels, tasks, pending_tasks, running_tasks,
                   completed_tasks, ctl, hp>>

NextOJ ==
    \/ \E dev \in Devs, matched \in SUBSET InnerRows : OjProbe(dev, matched)
    \/ \E dev \in Devs : OjSweep(dev)

SpecOJ == InitOJ /\ [][NextOJ]_vars

(***************************************************************************)
(* Hash preload of one inner relation.  A row is <<hash, item>>: its hash  *)
(* value and the length of its kern_hashitem; it consumes one slot entry   *)
(* and item.  hgram_size and hgram_nitems are indexed from 1.  A hash      *)
(* value has HashBits bits, and unsigned arithmetic wraps at 2^HashBits.   *)
(***************************************************************************)
HashSpace == 2 ^ HashBits
UINT_MAX == HashSpace - 1
hgram_width == 2 ^ HgramLog2
hgram_shift == HashBits - HgramLog2

Consumption(row) == 1 + row[2]

\* the hash values the model feeds: the ends of the first and last buckets
HashSamples ==
    {0, 2 ^ hgram_shift - 1, (hgram_width - 2) * 2 ^ hgram_shift,
     (hgram_width - 1) * 2 ^ hgram_shift, UINT_MAX}

\* pgstrom_create_data_store_hash; capacity is what the items may take
HashChunk(hash_min, hash_max, capacity) ==
    [format |-> "hash", hash_min |-> hash_min, hash_max |-> hash_max,
     capacity |-> capacity, rows |-> <<>>]

\* pgstrom_create_data_store_row
HeapChunk(capacity) == [format |-> "row", capacity |-> capacity, rows |-> <<>>]

RECURSIVE SumItems(_)
SumItems(rows) ==
    IF rows = <<>> THEN 0 ELSE Head(rows)[2] + SumItems(Tail(rows))

\* for (i=0; i < istate->hgram_width; i++): <<pds_list, hash_min, curr_size>>
\* or "error" (Too extreme hash-key distribution)
RECURSIVE PartitionLoop(_, _, _, _, _)
PartitionLoop(h, i, pds_list, hash_min, curr_size) ==
    IF i >= hgram_width THEN <<pds_list, hash_min, curr_size>>
    ELSE
      LET next_size == h.hgram_size[i + 1]
      IN  IF curr_size + next_size > h.pds_limit
          THEN IF curr_size = 0 THEN "error"
               ELSE
                 LET hash_max ==
                         ((((i + 1) * 2 ^ hgram_shift) % HashSpace)
                              + HashSpace - 1) % HashSpace
                 IN  PartitionLoop(h, i + 1,
                         Append(pds_list,
                                HashChunk(hash_min, hash_max, curr_size)),
                         (hash_max + 1) % HashSpace, next_size)
          ELSE PartitionLoop(h, i + 1, pds_list, hash_min,
                             curr_size + next_size)

\* forboth (lc1, pds_list, lc2, hash_max_list): the chunk the row goes to,
\* or 0 when no hash_max admits it
\* a routing that admits a row only below the hash_max of a chunk
RECURSIVE FirstAdmittingBelow(_, _, _)
FirstAdmittingBelow(pds_list, hash, k) ==
    IF k > Len(pds_list) THEN 0
    ELSE IF hash < pds_list[k].hash_max THEN k
    ELSE FirstAdmittingBelow(pds_list, hash, k + 1)

RECURSIVE FirstAdmitting(_, _, _)
FirstAdmitting(pds_list, hash, k) ==
    IF k > Len(pds_list) THEN 0
    ELSE IF hash <= pds_list[k].hash_max THEN k
    ELSE FirstAdmitting(pds_list, hash, k + 1)

\* while (tuplestore_gettupleslot(...)): the loaded list, or "error"
\* (Bug? GpuHashJoin Histgram was not correct)
RECURSIVE LoadLoop(_, _)
LoadLoop(pds_list, rows) ==
    IF rows = <<>> THEN pds_list
    ELSE LET row == Head(rows)
             k == FirstAdmitting(pds_list, row[1], 1)
         IN  IF k = 0 THEN LoadLoop(pds_list, Tail(rows))
             ELSE IF SumItems(pds_list[k].rows) + row[2]
                        > pds_list[k].capacity
             THEN "error"
             ELSE LoadLoop([pds_list EXCEPT ![k].rows = Append(@, row)],
                           Tail(rows))

\* tupslot is NULL when the load loop hands it to tuplestore_gettupleslot:
\* ub is what the read through it does, "segv" or "run"
gpujoin_inner_hash_preload_TS(h, ub) ==
    LET part == PartitionLoop(h, 0, <<>>, 0, 0)
        closed == part[1]
        all == Append(closed,
                      HashChunk(part[2], UINT_MAX, part[3] + HashBlckSz))
        loaded == LoadLoop(all, h.tupstore)
    IN  IF part = "error" THEN [h EXCEPT !.pc = "error"]
        ELSE IF ub = "segv" THEN [h EXCEPT !.pc = "segv"]
        ELSE IF loaded = "error" THEN [h EXCEPT !.pc = "histgram_error"]
        ELSE [h EXCEPT !.pds_list = loaded, !.tupstore = <<>>,
                       !.has_tupstore = FALSE, !.h_partitioned = TRUE]

\* a test that lets every join type append a chunk
MayAppendChunkAlways(join_type) == TRUE

\* istate->join_type == JOIN_INNER || istate->join_type == JOIN_RIGHT
MayAppendChunk(join_type) == join_type \in {JOIN_INNER, JOIN_RIGHT}

\* gpujoin_inner_hash_preload with a row from the inner scan
HashPreloadRow(h, row) ==
    LET consumption == Consumption(row)
        index == row[1] \div 2 ^ hgram_shift
        h1 == [h EXCEPT !.hgram_size[index + 1] = @ + consumption,
                        !.hgram_nitems[index + 1] = @ + 1,
                        !.h_rows = Append(@, row)]
        h2 == IF h1.pds_list = <<>> /\ ~h1.has_tupstore
              THEN [h1 EXCEPT !.pds_list = <<HashChunk(0, UINT_MAX, 0)>>,
                              !.consumed = HashKdsHead]
              ELSE h1
        full == h2.pds_limit > 0 /\ h2.pds_limit <= h2.consumed + consumption
        Put(hh) == [hh EXCEPT !.tupstore = Append(@, row),
                              !.ntuples = @ + 1,
                              !.consumed = @ + consumption]
        Insert(hh) ==
            [hh EXCEPT !.pds_list[Len(hh.pds_list)].rows = Append(@, row),
                       !.ntuples = @ + 1,
                       !.consumed = @ + consumption]
    IN  IF h2.has_tupstore THEN Put(h2)
        ELSE IF full
        THEN IF MayAppendChunk(h2.join_type)
             THEN Insert([h2 EXCEPT
                             !.pds_list = Append(@, HashChunk(0, UINT_MAX, 0)),
                             !.consumed = HashKdsHead])
             ELSE Put([h2 EXCEPT
                          !.has_tupstore = TRUE,
                          !.tupstore = h2.pds_list[Len(h2.pds_list)].rows,
                          !.pds_list = <<>>])
        ELSE Insert(h2)

\* an end of the inner scan that leaves the list as the rows made it
HashPreloadEndAsLoaded(h, ub) ==
    LET h1 == IF h.has_tupstore THEN gpujoin_inner_hash_preload_TS(h, ub)
              ELSE h
    IN  IF h1.pc # "load" THEN h1 ELSE [h1 EXCEPT !.pc = "done"]

\* gpujoin_inner_hash_preload when the inner scan has no more rows
HashPreloadEnd(h, ub) ==
    LET h1 == IF h.has_tupstore THEN gpujoin_inner_hash_preload_TS(h, ub)
              ELSE h
    IN  IF h1.pc # "load" THEN h1
        ELSE [h1 EXCEPT !.pds_list = IF @ = <<>>
                                     THEN <<HashChunk(0, UINT_MAX, 0)>>
                                     ELSE @,
                        !.pc = "done"]

\* a heap preload that starts the new chunk and keeps inserting into the
\* chunk it had before
HeapPreloadRowIntoOld(h, row) ==
    LET consumption == Consumption(row)
        h1 == IF h.pds_list = <<>>
              THEN [h EXCEPT !.pds_list = <<HeapChunk(0)>>,
                             !.consumed = HashKdsHead]
              ELSE h
        full == h1.pds_limit > 0 /\ h1.pds_limit <= h1.consumed + consumption
        h2 == IF full
              THEN [h1 EXCEPT !.pds_list = Append(@, HeapChunk(0)),
                              !.consumed = HashKdsHead]
              ELSE h1
    IN  [h2 EXCEPT !.consumed = @ + consumption,
                   !.pds_list[Len(h1.pds_list)].rows = Append(@, row),
                   !.ntuples = @ + 1,
                   !.h_rows = Append(@, row)]

\* gpujoin_inner_heap_preload with a row from the inner scan
HeapPreloadRow(h, row) ==
    LET consumption == Consumption(row)
        h1 == IF h.pds_list = <<>>
              THEN [h EXCEPT !.pds_list = <<HeapChunk(0)>>,
                             !.consumed = HashKdsHead]
              ELSE h
        full == h1.pds_limit > 0 /\ h1.pds_limit <= h1.consumed + consumption
        h2 == IF full
              THEN [h1 EXCEPT !.pds_list = Append(@, HeapChunk(0)),
                              !.consumed = HashKdsHead]
              ELSE h1
    IN  [h2 EXCEPT !.consumed = @ + consumption,
                   !.pds_list[Len(h2.pds_list)].rows = Append(@, row),
                   !.ntuples = @ + 1,
                   !.h_rows = Append(@, row)]

\* gpujoin_inner_heap_preload when the inner scan has no more rows
HeapPreloadEnd(h) ==
    [h EXCEPT !.pds_list = IF @ = <<>> THEN <<HeapChunk(0)>> ELSE @,
              !.pc = "done"]

HashConfig ==
    Scenario(JoinTypesWith(1, JOIN_FULL), BatchesWith(1, 1), 1,
             KDS_FORMAT_SLOT, PlanWidth, FALSE, 1)

InitHash ==
    /\ cfg = HashConfig
    /\ gjs = InitGjs(cfg)
    /\ pmrels = <<>>
    /\ tasks = <<>>
    /\ pending_tasks = <<>>
    /\ running_tasks = <<>>
    /\ completed_tasks = <<>>
    /\ ctl = InitCtl
    /\ oj = NULL
    /\ \E jt \in {JOIN_INNER, JOIN_LEFT, JOIN_RIGHT, JOIN_FULL},
          hashed \in BOOLEAN :
          hp = [pc |-> "load", join_type |-> jt, hashed |-> hashed,
                pds_limit |-> 0,
                consumed |-> 0, ntuples |-> 0, has_tupstore |-> FALSE,
                tupstore |-> <<>>, pds_list |-> <<>>,
                hgram_size |-> [i \in 1..hgram_width |-> 0],
                hgram_nitems |-> [i \in 1..hgram_width |-> 0],
                h_partitioned |-> FALSE, h_rows |-> <<>>, h_loads |-> 1]

\* one round of the preload loop reads a row
HashRow(hash, item) ==
    /\ hp.pc = "load"
    /\ hp.ntuples < MaxInnerRows
    /\ ~hp.hashed => hash = 0
    /\ hp' = IF hp.hashed THEN HashPreloadRow(hp, <<hash, item>>)
             ELSE HeapPreloadRow(hp, <<hash, item>>)
    /\ UNCHANGED <<cfg, gjs, pmrels, tasks, pending_tasks, running_tasks,
                   completed_tasks, ctl, oj>>

\* total_usage >= total_limit after a round: the usage becomes the limit
HashFixLimit ==
    /\ hp.pc = "load"
    /\ hp.pds_limit = 0
    /\ hp.ntuples > 0
    /\ hp' = [hp EXCEPT !.pds_limit = hp.consumed]
    /\ UNCHANGED <<cfg, gjs, pmrels, tasks, pending_tasks, running_tasks,
                   completed_tasks, ctl, oj>>

\* the inner scan is at its end
HashEnd(ub) ==
    /\ hp.pc = "load"
    /\ ~hp.has_tupstore => ub = "run"
    /\ hp' = IF hp.hashed THEN HashPreloadEnd(hp, ub) ELSE HeapPreloadEnd(hp)
    /\ UNCHANGED <<cfg, gjs, pmrels, tasks, pending_tasks, running_tasks,
                   completed_tasks, ctl, oj>>

NextHash ==
    \/ \E hash \in HashSamples, item \in 1..MaxItem : HashRow(hash, item)
    \/ HashFixLimit
    \/ \E ub \in {"segv", "run"} : HashEnd(ub)

SpecHash == InitHash /\ [][NextHash]_vars

(***************************************************************************)
(* The same preload, run again after a rescan that released the SubChunks. *)
(***************************************************************************)
\* gpujoin_rescan without keep_pmrels, for one inner relation
RescanInner(h) ==
    [h EXCEPT !.pds_list = <<>>,
              !.pds_limit = 0,
              !.consumed = 0,
              !.ntuples = 0,
              !.has_tupstore = FALSE,
              !.tupstore = <<>>]

\* the executor rescans a join whose inner relations were loaded, and the
\* next call of gpujoin_next_chunk loads them again
HashRescan ==
    /\ hp.pc = "done"
    /\ hp.h_loads < MaxLoads
    /\ hp' = [RescanInner(hp) EXCEPT !.pc = "load",
                                     !.h_rows = <<>>,
                                     !.h_partitioned = FALSE,
                                     !.h_loads = @ + 1]
    /\ UNCHANGED <<cfg, gjs, pmrels, tasks, pending_tasks, running_tasks,
                   completed_tasks, ctl, oj>>

NextReload ==
    \/ NextHash
    \/ HashRescan

SpecReload == InitHash /\ [][NextReload]_vars

(***************************************************************************)
(* The sizing of the result buffers.  The same executor runs joins of two  *)
(* inner relations with one sub-chunk each and every combination of join   *)
(* fan-out, destination format and result-row width, so that the buffers   *)
(* of gpujoin_attach_result_buffer are too small, fit, or pass the chunk   *)
(* size and its limit.  The executor takes a step whenever one is enabled: *)
(* the backend calls the handlers in a loop and the device ends every      *)
(* kernel it was given.                                                    *)
(***************************************************************************)
SizeConfigs ==
    {Scenario(JoinTypesWith(1, JOIN_INNER), BatchesWith(1, 1), fan, format,
              tup_width, FALSE, 1) :
        fan \in 0..MaxFan,
        format \in {KDS_FORMAT_SLOT, KDS_FORMAT_ROW},
        tup_width \in {PlanWidth, HugeWidth}}

InitSize ==
    /\ cfg \in SizeConfigs
    /\ gjs = InitGjs(cfg)
    /\ pmrels = <<>>
    /\ tasks = <<>>
    /\ pending_tasks = <<>>
    /\ running_tasks = <<>>
    /\ completed_tasks = <<>>
    /\ ctl = InitCtl
    /\ oj = NULL
    /\ hp = NULL

SpecSize == InitSize /\ [][Next]_vars

(***************************************************************************)
(* The requests of a launch.  The same executor runs joins whose depths    *)
(* are nest-loop or hash joins of every kind that puts outer-join kernels  *)
(* on the stream (a nest-loop depth is never a LEFT or FULL join), on two  *)
(* devices so that outer-join maps are gathered from a peer.               *)
(***************************************************************************)
StreamScenario(join_type, nestloop, ndev) ==
    [Scenario(join_type, BatchesWith(1, 1), 1, KDS_FORMAT_SLOT, PlanWidth,
              FALSE, ndev) EXCEPT !.nestloop = nestloop]

StreamConfigs ==
    {StreamScenario(<<JOIN_RIGHT, JOIN_RIGHT>>, <<TRUE, FALSE>>, NDev),
     StreamScenario(<<JOIN_INNER, JOIN_FULL>>, <<TRUE, FALSE>>, NDev),
     StreamScenario(<<JOIN_LEFT, JOIN_INNER>>, <<FALSE, TRUE>>, 1)}

InitStream ==
    /\ cfg \in StreamConfigs
    /\ gjs = InitGjs(cfg)
    /\ pmrels = <<>>
    /\ tasks = <<>>
    /\ pending_tasks = <<>>
    /\ running_tasks = <<>>
    /\ completed_tasks = <<>>
    /\ ctl = InitCtl
    /\ oj = NULL
    /\ hp = NULL

SpecStream == InitStream /\ [][Next]_vars

(***************************************************************************)
(* The same executor, which now may call gpujoin_next_chunk again after it *)
(* has returned NULL, without a rescan in between.                         *)
(***************************************************************************)
EosConfigs ==
    {Scenario(JoinTypesWith(1, JOIN_INNER), BatchesWith(1, 1), 1,
              KDS_FORMAT_SLOT, PlanWidth, FALSE, 1),
     Scenario(JoinTypesWith(NumRels, JOIN_RIGHT),
              BatchesWith(NumRels, MaxBatches), 1, KDS_FORMAT_SLOT,
              PlanWidth, FALSE, 1)}

InitEos ==
    /\ cfg \in EosConfigs
    /\ gjs = InitGjs(cfg)
    /\ pmrels = <<>>
    /\ tasks = <<>>
    /\ pending_tasks = <<>>
    /\ running_tasks = <<>>
    /\ completed_tasks = <<>>
    /\ ctl = InitCtl
    /\ oj = NULL
    /\ hp = NULL

NextChunkAgain ==
    /\ Running
    /\ ctl.eos
    /\ ctl.h_again < MaxAgain
    /\ ctl.curr_task = NULL
    /\ pending_tasks = <<>>
    /\ completed_tasks = <<>>
    /\ Len(pending_tasks) + Len(running_tasks) < MaxAsync
    /\ LET Chained(S) ==
               /\ Len(S.pm) <= MaxPmrels
               /\ Len(S.tk) <= MaxTasks
               /\ Commit([S EXCEPT
                      !.pq = IF S.ret # NULL /\ S.c.aborted = "none"
                             THEN Append(@, S.ret) ELSE @,
                      !.c.h_fresh = IF S.ret # NULL THEN FALSE ELSE @,
                      !.c.h_again = @ + 1,
                      !.c.eos = (S.ret = NULL /\ S.c.aborted = "none")])
       IN  Chained(gpujoin_next_chunk(cfg, Pack))
    /\ UNCHANGED <<cfg, running_tasks, completed_tasks, oj, hp>>

NextEos ==
    \/ Next
    \/ NextChunkAgain

SpecEos == InitEos /\ [][NextEos]_vars

(***************************************************************************)
(* The local bitonic sort of cuda_gpusort.h.  One work-group of localSize  *)
(* work-items sorts the partition prtID of a chunk of nitems rows; the     *)
(* work-items of the group run in lock-step from one barrier to the next,  *)
(* so that one step of the model is what all of them do between two        *)
(* barriers.  The state of the kernel is kept in hp.                       *)
(***************************************************************************)
LocalSizes == {n \in 1..MaxLocalSize : \E k \in 0..MaxLocalSize : n = 2 ^ k}

Sign(n) == IF n < 0 THEN -1 ELSE IF n > 0 THEN 1 ELSE 0

\* the comparison generated for the sort keys: rows are ordered by one key
gpusort_keycomp(keys, x_index, y_index) ==
    Sign(keys[x_index + 1] - keys[y_index + 1])

prtSize(s) == s.localSize * 2

prtPos(s) == s.prtID * prtSize(s)

localEntry(s) ==
    IF prtPos(s) + prtSize(s) < s.nitems THEN prtSize(s)
    ELSE s.nitems - prtPos(s)

idx0(s, localID) ==
    LET halfUnitSize == s.unitSize \div 2
    IN  ((localID \div halfUnitSize) * s.unitSize) + (localID % halfUnitSize)

\* a partner that is never the mirror image within the unit
idx1_never_reversing(s, localID) == (s.unitSize \div 2) + idx0(s, localID)

\* (idx0 & ~unitMask) | (~idx0 & unitMask) when reversing
idx1(s, localID) ==
    LET i0 == idx0(s, localID)
        unitMask == s.unitSize - 1
    IN  IF s.unitSize = s.blockSize
        THEN (i0 - (i0 % s.unitSize)) + (unitMask - (i0 % s.unitSize))
        ELSE (s.unitSize \div 2) + i0

\* the work-item swaps its two entries
Swaps(s, localID) ==
    /\ idx1(s, localID) < localEntry(s)
    /\ gpusort_keycomp(s.keys, s.localIdx[idx0(s, localID)],
                       s.localIdx[idx1(s, localID)]) > 0

\* what the work-items leave in localIdx at the next barrier
CompareAndSwap(s) ==
    [i \in DOMAIN s.localIdx |->
        IF \E w \in 0..(s.localSize - 1) :
               Swaps(s, w) /\ i \in {idx0(s, w), idx1(s, w)}
        THEN LET w == CHOOSE w \in 0..(s.localSize - 1) :
                          Swaps(s, w) /\ i \in {idx0(s, w), idx1(s, w)}
             IN  IF i = idx0(s, w) THEN s.localIdx[idx1(s, w)]
                 ELSE s.localIdx[idx0(s, w)]
        ELSE s.localIdx[i]]

\* the two for loops of the sort, advanced by one round
NextRound(s) ==
    IF s.unitSize \div 2 >= 2
    THEN [s EXCEPT !.unitSize = @ \div 2]
    ELSE IF s.blockSize * 2 <= prtSize(s)
    THEN [s EXCEPT !.blockSize = @ * 2, !.unitSize = s.blockSize * 2]
    ELSE [s EXCEPT !.pc = "write"]

InitSort ==
    /\ cfg = NULL
    /\ gjs = NULL
    /\ pmrels = <<>>
    /\ tasks = <<>>
    /\ pending_tasks = <<>>
    /\ running_tasks = <<>>
    /\ completed_tasks = <<>>
    /\ ctl = NULL
    /\ oj = NULL
    /\ \E localSize \in LocalSizes, nitems \in 1..MaxSortItems :
          \E prtID \in {p \in 0..MaxSortItems : p * localSize * 2 < nitems},
             keys \in [1..nitems -> 0..MaxSortKey] :
             hp = [pc |-> "index", localSize |-> localSize,
                   nitems |-> nitems, prtID |-> prtID, keys |-> keys,
                   localIdx |-> [i \in 0..(2 * MaxLocalSize - 1) |-> -1],
                   blockSize |-> 2, unitSize |-> 2,
                   results |-> [i \in 0..(nitems - 1) |-> i]]

\* create row index and then store to localIdx
SortIndex ==
    /\ hp.pc = "index"
    /\ hp' = [hp EXCEPT
                 !.localIdx = [i \in DOMAIN @ |->
                                  IF i < localEntry(hp) THEN prtPos(hp) + i
                                  ELSE @[i]],
                 !.pc = "sort"]
    /\ UNCHANGED <<cfg, gjs, pmrels, tasks, pending_tasks, running_tasks,
                   completed_tasks, ctl, oj>>

\* one round of the bitonic sorting, up to its barrier
SortRound ==
    /\ hp.pc = "sort"
    /\ hp' = NextRound([hp EXCEPT !.localIdx = CompareAndSwap(hp)])
    /\ UNCHANGED <<cfg, gjs, pmrels, tasks, pending_tasks, running_tasks,
                   completed_tasks, ctl, oj>>

\* write back local sorted result
SortWriteBack ==
    /\ hp.pc = "write"
    /\ hp' = [hp EXCEPT
                 !.results = [i \in DOMAIN @ |->
                                 IF /\ i >= prtPos(hp)
                                    /\ i < prtPos(hp) + localEntry(hp)
                                 THEN hp.localIdx[i - prtPos(hp)]
                                 ELSE @[i]],
                 !.pc = "done"]
    /\ UNCHANGED <<cfg, gjs, pmrels, tasks, pending_tasks, running_tasks,
                   completed_tasks, ctl, oj>>

NextSort ==
    \/ SortIndex
    \/ SortRound
    \/ SortWriteBack

SpecSort == InitSort /\ [][NextSort]_vars

(***************************************************************************)
(* The spinlock of the task queues.  Two threads run: the backend, which   *)
(* submits, launches and completes tasks, and the CUDA callback thread,    *)
(* which runs gpujoin_task_respond.  A handler is the sequence of its      *)
(* statements that touch the queues, their counters, the reference counts  *)
(* or the device; a step runs the next statement of one thread.  The       *)
(* executor's own queue handling (cuda_control.c) takes the lock the same  *)
(* way.  ctl holds the lock, the statements each thread has left, the task *)
(* each thread works on and the three counters.                            *)
(***************************************************************************)
Backend == "backend"
Callback == "callback"
Threads == {Backend, Callback}
LockFree == "free"

\* SpinLockAcquire; dlist_push_tail(pending_tasks, pgjoin_new);
\* num_pending_tasks++; SpinLockRelease
EnqueueNew ==
    <<"SpinLockAcquire", "dlist_push_tail_pending_new",
      "num_pending_tasks++", "SpinLockRelease">>

\* SpinLockAcquire; dlist_push_head(pending_tasks, pgjoin);
\* num_pending_tasks++; SpinLockRelease
EnqueueAgain ==
    <<"SpinLockAcquire", "dlist_push_head_pending",
      "num_pending_tasks++", "SpinLockRelease">>

\* a callback that moves its task without taking the lock
RespondProgramUnlocked(kerror) ==
    <<"dlist_delete_running", "num_running_tasks--",
      IF kerror = StromError_Success THEN "dlist_push_tail_completed"
      ELSE "dlist_push_head_completed",
      "num_completed_tasks++">>

\* gpujoin_task_respond, after it has recorded the status
RespondProgram(kerror) ==
    <<"SpinLockAcquire", "dlist_delete_running", "num_running_tasks--",
      IF kerror = StromError_Success THEN "dlist_push_tail_completed"
      ELSE "dlist_push_head_completed",
      "num_completed_tasks++", "SpinLockRelease">>

\* the executor takes a new task from gpujoin_next_chunk and queues it
SubmitProgram == <<"gpujoin_create_task">> \o EnqueueNew

\* the executor moves the head of the pending queue to the running queue
\* and calls gpujoin_task_process
LaunchProgram ==
    <<"SpinLockAcquire", "dlist_pop_pending", "num_pending_tasks--",
      "dlist_push_tail_running", "num_running_tasks++", "SpinLockRelease",
      "multirels_get_buffer">>

\* gpujoin_task_process returned false: the executor puts the task back
LaunchRollback ==
    <<"SpinLockAcquire", "dlist_delete_running", "num_running_tasks--",
      "dlist_push_head_pending", "num_pending_tasks++", "SpinLockRelease">>

\* the executor takes the head of the completed queue and calls
\* gpujoin_task_complete, which starts with gpujoin_cleanup_cuda_resources
CompleteProgram ==
    <<"SpinLockAcquire", "dlist_pop_completed", "num_completed_tasks--",
      "SpinLockRelease", "multirels_put_buffer", "gpujoin_task_complete">>

\* the statements that call the device (gpuMemAlloc, gpuMemFree)
DeviceCalls == {"multirels_get_buffer", "multirels_put_buffer"}

LockTask ==
    [kerror |-> StromError_Success, cuda_index |-> NULL, m_kmrels |-> FALSE,
     launched |-> FALSE]

LockPack ==
    [tk |-> tasks, pq |-> pending_tasks, rq |-> running_tasks,
     cq |-> completed_tasks, pm |-> pmrels, c |-> ctl]

\* one statement of thread th; choice is what the statement meets: whether
\* the device allocation succeeds, whether outer rows are left
LockStatement(s, th, op, choice) ==
    LET t == s.c.task[th]
        room == Len(s.tk) < LockMaxTasks
        Then(s1, more) == [s1 EXCEPT !.c.prog[th] = @ \o more]
    IN  CASE op = "gpujoin_create_task" ->
                 [s EXCEPT !.tk = Append(@, LockTask),
                           !.pm[1].n_attached = @ + 1,
                           !.c.new = Len(s.tk) + 1]
          [] op = "dlist_push_tail_pending_new" ->
                 [s EXCEPT !.pq = dlist_push_tail(@, s.c.new)]
          [] op = "dlist_push_head_pending" ->
                 [s EXCEPT !.pq = dlist_push_head(@, t)]
          [] op = "num_pending_tasks++" ->
                 [s EXCEPT !.c.num_pending_tasks = @ + 1]
          [] op = "dlist_pop_pending" ->
                 [s EXCEPT !.c.task[th] = Head(s.pq), !.pq = Tail(@)]
          [] op = "num_pending_tasks--" ->
                 [s EXCEPT !.c.num_pending_tasks = @ - 1]
          [] op = "dlist_push_tail_running" ->
                 [s EXCEPT !.rq = dlist_push_tail(@, t)]
          [] op = "num_running_tasks++" ->
                 [s EXCEPT !.c.num_running_tasks = @ + 1]
          [] op = "dlist_delete_running" ->
                 [s EXCEPT !.rq = Without(@, t)]
          [] op = "num_running_tasks--" ->
                 [s EXCEPT !.c.num_running_tasks = @ - 1]
          [] op = "dlist_push_tail_completed" ->
                 [s EXCEPT !.cq = dlist_push_tail(@, t)]
          [] op = "dlist_push_head_completed" ->
                 [s EXCEPT !.cq = dlist_push_head(@, t)]
          [] op = "num_completed_tasks++" ->
                 [s EXCEPT !.c.num_completed_tasks = @ + 1]
          [] op = "dlist_pop_completed" ->
                 [s EXCEPT !.c.task[th] = Head(s.cq), !.cq = Tail(@)]
          [] op = "num_completed_tasks--" ->
                 [s EXCEPT !.c.num_completed_tasks = @ - 1]
          [] op = "multirels_get_buffer" ->
                 IF choice
                 THEN Then([s EXCEPT
                               !.pm[1].refcnt[s.tk[t].cuda_index] = @ + 1,
                               !.tk[t].m_kmrels = TRUE],
                           <<"cuStreamAddCallback">>)
                 ELSE Then(s, LaunchRollback)
          [] op = "cuStreamAddCallback" ->
                 [s EXCEPT !.tk[t].launched = TRUE]
          [] op = "multirels_put_buffer" ->
                 [s EXCEPT !.pm[1].refcnt[s.tk[t].cuda_index] = @ - 1,
                           !.tk[t].m_kmrels = FALSE]
          [] op = "gpujoin_task_complete" ->
                 IF s.tk[t].kerror = StromError_Success
                 THEN IF choice /\ room
                      THEN Then(s, <<"gpujoin_create_task">> \o EnqueueNew
                                       \o <<"multirels_detach_buffer">>)
                      ELSE Then(s, <<"multirels_detach_buffer">>)
                 ELSE IF s.tk[t].kerror = StromError_DataStoreNoSpace
                 THEN Then(s, EnqueueAgain)
                 ELSE Then(s, <<"multirels_detach_buffer">>)
          [] op = "multirels_detach_buffer" ->
                 [s EXCEPT !.pm[1].n_attached = @ - 1]

InitLock ==
    /\ cfg = NULL
    /\ gjs = NULL
    /\ oj = NULL
    /\ hp = NULL
    /\ pmrels = <<[n_attached |-> 1, refcnt |-> [d \in Devs |-> 0]]>>
    /\ tasks = <<>>
    /\ pending_tasks = <<>>
    /\ running_tasks = <<>>
    /\ completed_tasks = <<>>
    /\ ctl = [lock |-> LockFree,
              prog |-> [th \in Threads |-> <<>>],
              task |-> [th \in Threads |-> NULL],
              new |-> NULL,
              num_pending_tasks |-> 0, num_running_tasks |-> 0,
              num_completed_tasks |-> 0]

LockCommit(s) ==
    /\ tasks' = s.tk
    /\ pending_tasks' = s.pq
    /\ running_tasks' = s.rq
    /\ completed_tasks' = s.cq
    /\ pmrels' = s.pm
    /\ ctl' = s.c
    /\ UNCHANGED <<cfg, gjs, oj, hp>>

\* the backend enters a handler
LkSubmit ==
    /\ ctl.prog[Backend] = <<>>
    /\ Len(tasks) < LockMaxTasks
    /\ LockCommit([LockPack EXCEPT !.c.prog[Backend] = SubmitProgram])

LkLaunch(dev) ==
    /\ ctl.prog[Backend] = <<>>
    /\ pending_tasks # <<>>
    /\ LockCommit([LockPack EXCEPT
                      !.c.prog[Backend] = LaunchProgram,
                      !.tk[Head(pending_tasks)].cuda_index = dev])

LkComplete ==
    /\ ctl.prog[Backend] = <<>>
    /\ completed_tasks # <<>>
    /\ LockCommit([LockPack EXCEPT !.c.prog[Backend] = CompleteProgram])

\* the device has run the task: gpujoin_task_respond records the status
LkRespond(t, status) ==
    /\ ctl.prog[Callback] = <<>>
    /\ tasks[t].launched
    /\ LockCommit([LockPack EXCEPT
                      !.tk[t].kerror = status,
                      !.tk[t].launched = FALSE,
                      !.c.task[Callback] = t,
                      !.c.prog[Callback] = RespondProgram(status)])

LkAcquire(th) ==
    /\ ctl.prog[th] # <<>>
    /\ Head(ctl.prog[th]) = "SpinLockAcquire"
    /\ ctl.lock = LockFree
    /\ LockCommit([LockPack EXCEPT !.c.lock = th, !.c.prog[th] = Tail(@)])

LkRelease(th) ==
    /\ ctl.prog[th] # <<>>
    /\ Head(ctl.prog[th]) = "SpinLockRelease"
    /\ LockCommit([LockPack EXCEPT !.c.lock = LockFree,
                                   !.c.prog[th] = Tail(@)])

LkStatement(th, choice) ==
    /\ ctl.prog[th] # <<>>
    /\ Head(ctl.prog[th]) \notin {"SpinLockAcquire", "SpinLockRelease"}
    /\ LockCommit(LockStatement([LockPack EXCEPT !.c.prog[th] = Tail(@)],
                                th, Head(ctl.prog[th]), choice))

NextLock ==
    \/ LkSubmit
    \/ \E dev \in Devs : LkLaunch(dev)
    \/ LkComplete
    \/ \E t \in 1..Len(tasks),
          status \in {StromError_Success, StromError_DataStoreNoSpace,
                      CudaError} : LkRespond(t, status)
    \/ \E th \in Threads : LkAcquire(th)
    \/ \E th \in Threads : LkRelease(th)
    \/ \E th \in Threads, choice \in BOOLEAN : LkStatement(th, choice)

SpecLock == InitLock /\ [][NextLock]_vars

(***************************************************************************)
(* What the properties below speak about.                                  *)
(***************************************************************************)
PmIds == 1..Len(pmrels)
TaskIds == 1..Len(tasks)

HasRightOuter == \E d \in Depths : IsRightOuter(cfg.join_type[d])

\* the scheduler reported the end of the scan and nothing is left to do
Quiescent ==
    /\ Running
    /\ ctl.eos
    /\ pending_tasks = <<>>
    /\ running_tasks = <<>>
    /\ completed_tasks = <<>>
    /\ ctl.curr_task = NULL

\* the combinations of one sub-chunk per depth
Windows ==
    {w \in [Depths -> 1..MaxBatches] :
        \A d \in Depths : w[d] <= cfg.nbatches[d]}

BuiltTimes(w) ==
    Cardinality({p \in PmIds : pmrels[p].inner_chunks = w})

\* the tasks of set p that carry an outer chunk
ChunkTasks(p) ==
    {t \in TaskIds : tasks[t].pmrels = p /\ tasks[t].h_src # NoChunk}

\* the outer scan of the pass over set p has reached its end
PassOver(p) == p < Len(pmrels) \/ gjs.scan_done

\* the tasks that hold the mirror of set p on device d
Holders(p, d) ==
    {t \in TaskIds : /\ tasks[t].pmrels = p
                     /\ tasks[t].m_kmrels
                     /\ tasks[t].cuda_index = d}

\* one run of task t over its final range with buffers that cannot overflow
LargeRun(t) ==
    DeviceRun(cfg, gjs,
        [tasks[t] EXCEPT
            !.pds_src = tasks[t].h_src,
            !.pds_dst = DstStore(gjs.result_format, IntMax, IntMax),
            !.kern.kresults_total_items = IntMax])

(***************************************************************************)
(* C1: the windows built until the end of the scan are every combination   *)
(* of one sub-chunk per depth, each exactly once: none is built twice, and *)
(* when gpujoin_next_chunk has returned NULL none is missing.              *)
(***************************************************************************)
C1_EveryWindowOnce ==
    /\ \A w \in Windows : BuiltTimes(w) <= 1
    /\ ctl.eos => \A w \in Windows : BuiltTimes(w) = 1

(***************************************************************************)
(* C2: in one pass over a window every outer row is admitted by exactly    *)
(* one task.  No row is admitted twice; the row that did not fit is not    *)
(* held back when the scan ends; every range is non-empty and starts       *)
(* inside its chunk; a continuation starts where its parent's range ended; *)
(* and once the pass is over and its tasks are done, every row 1..NOuter   *)
(* was admitted once.                                                      *)
(***************************************************************************)
C2_EveryRowAdmittedOnce ==
    /\ gjs.scan_done => gjs.scan_overflow = NULL
    /\ \A p \in PmIds : \A r \in 1..NOuter : pmrels[p].h_admitted[r] <= 1
    /\ \A t \in TaskIds :
          tasks[t].h_src # NoChunk =>
             /\ tasks[t].oitems_nums >= 1
             /\ tasks[t].oitems_base < tasks[t].h_src.nitems
             /\ tasks[t].h_done => tasks[t].h_range[2] >= 1
             /\ tasks[t].h_from # NULL =>
                   LET u == tasks[tasks[t].h_from]
                   IN  /\ u.h_src = tasks[t].h_src
                       /\ tasks[t].h_src.first + tasks[t].oitems_base
                             = u.h_range[1] + u.h_range[2]
    /\ \A p \in PmIds :
          (/\ Running
           /\ PassOver(p)
           /\ \A t \in ChunkTasks(p) : tasks[t].h_done)
          => \A r \in 1..NOuter : pmrels[p].h_admitted[r] = 1

\* a pass that ended with a retried task, a continuation and an overflow row
C2_Witness ==
    /\ ~cfg.scan_bulk
    /\ \E p \in PmIds :
          /\ Running
          /\ PassOver(p)
          /\ \A t \in ChunkTasks(p) : tasks[t].h_done
          /\ \E t \in ChunkTasks(p) : tasks[t].h_from # NULL
          /\ \E t \in ChunkTasks(p) : tasks[t].h_attempts >= 2
          /\ \E t \in ChunkTasks(p) : tasks[t].h_src.first > 1

(***************************************************************************)
(* C3: for a join with a right or full outer depth, the task without an    *)
(* outer chunk is enqueued exactly once for every set: never twice, only   *)
(* when every task with a chunk of that set is done, and when the scan has *)
(* ended and nothing is left to run every set has had its sweep.           *)
(***************************************************************************)
C3_SweepOncePerSet ==
    HasRightOuter =>
       /\ \A p \in PmIds : pmrels[p].h_sweeps <= 1
       /\ \A p \in PmIds :
             pmrels[p].h_sweeps = 1 =>
                \A t \in ChunkTasks(p) : tasks[t].h_done
       /\ Quiescent => \A p \in PmIds : pmrels[p].h_sweeps = 1

(***************************************************************************)
(* C4, as stated: the mirror of a set is allocated at most once on every   *)
(* device.                                                                 *)
(***************************************************************************)
C4_AllocatedOncePerDevice ==
    \A p \in PmIds : \A d \in Devs : pmrels[p].h_allocs[d] <= 1

(***************************************************************************)
(* C4, amended: a mirror is allocated only by a multirels_get_buffer that  *)
(* finds refcnt[d] = 0, is freed only by a multirels_put_buffer that       *)
(* leaves refcnt[d] = 0, and is neither freed nor allocated again while    *)
(* refcnt[d] stays positive.                                               *)
(***************************************************************************)
C4_OneMirrorWhileHeld ==
    [][\A p \in PmIds : \A d \in Devs :
          LET a == pmrels[p]
              b == pmrels'[p]
          IN  /\ b.h_allocs[d] # a.h_allocs[d] => a.refcnt[d] = 0
              /\ b.h_frees[d] # a.h_frees[d] => b.refcnt[d] = 0
              /\ (a.refcnt[d] > 0 /\ b.refcnt[d] = 0) => ~b.m_kmrels[d]
              /\ (a.refcnt[d] > 0 /\ b.refcnt[d] > 0) =>
                    /\ b.m_kmrels[d]
                    /\ b.h_allocs[d] = a.h_allocs[d]
                    /\ b.h_frees[d] = a.h_frees[d]]_vars

\* a mirror that was freed and is allocated again on the same device
C4_Witness ==
    \E p \in PmIds : \E d \in Devs :
        /\ pmrels[p].h_allocs[d] = 2
        /\ pmrels[p].h_frees[d] >= 1
        /\ pmrels[p].m_kmrels[d]

(***************************************************************************)
(* C5: refcnt[d] of a set is the number of tasks that hold its mirror on   *)
(* d, the mirror exists iff refcnt[d] > 0, and it was never freed more     *)
(* often than allocated; also after a failed allocation and after an       *)
(* error raised in gpujoin_task_process.                                   *)
(***************************************************************************)
C5_RefcntCountsHolders ==
    \A p \in PmIds : \A d \in Devs :
        /\ pmrels[p].refcnt[d] = Cardinality(Holders(p, d))
        /\ pmrels[p].m_kmrels[d] <=> pmrels[p].refcnt[d] > 0
        /\ pmrels[p].h_frees[d] <= pmrels[p].h_allocs[d]

\* an error was raised in gpujoin_task_process while another task held on
C5_Witness ==
    /\ ctl.aborted = "error"
    /\ \E p \in PmIds : \E d \in Devs :
          /\ pmrels[p].refcnt[d] = 1
          /\ pmrels[p].h_frees[d] = 0
          /\ \E t \in TaskIds : tasks[t].pmrels = p /\ ~tasks[t].m_kmrels
                                /\ tasks[t].h_attempts = 0

(***************************************************************************)
(* C8: a task that was re-run after DataStoreNoSpace delivers the rows a   *)
(* single run with large buffers delivers, and a task that waits for its   *)
(* retry has an empty destination store (usage and nitems are zero).       *)
(***************************************************************************)
C8_RetryDeliversSameRows ==
    /\ \A k \in 1..Len(pending_tasks) :
          LET t == pending_tasks[k]
          IN  tasks[t].kerror = StromError_DataStoreNoSpace =>
                 /\ tasks[t].pds_dst.usage = 0
                 /\ tasks[t].pds_dst.nitems = 0
                 /\ tasks[t].pds_dst.rows = <<>>
    /\ \A t \in TaskIds :
          tasks[t].h_done =>
             tasks[t].pds_dst.rows = LargeRun(t).pds_dst.rows

\* a task is done after a retry and has delivered rows
C8_Witness ==
    \E t \in TaskIds :
        /\ tasks[t].h_done
        /\ tasks[t].h_attempts >= 2
        /\ tasks[t].h_src # NoChunk
        /\ Len(tasks[t].pds_dst.rows) >= 1

C10_SweepOnlyForOuterJoin ==
    \A p \in PmIds : pmrels[p].h_sweeps >= 1 => HasRightOuter

(***************************************************************************)
(* C6: the rows the task without a chunk sees matched on its device, after *)
(* the colocation, are the rows that the join kernels marked on any        *)
(* device; so it emits a row iff no device matched it.                     *)
(***************************************************************************)
C6_SweepSeesUnionOfMatches ==
    oj.swept # NULL => oj.seen = oj.h_matched

\* the number of hash values in the ranges of the chunks
RECURSIVE RangeSizes(_)
RangeSizes(pds_list) ==
    IF pds_list = <<>> THEN 0
    ELSE Head(pds_list).hash_max - Head(pds_list).hash_min + 1
             + RangeSizes(Tail(pds_list))

(***************************************************************************)
(* C7: after gpujoin_inner_hash_preload_TS the [hash_min, hash_max] ranges *)
(* of the chunks are pairwise disjoint and cover the hash space (their     *)
(* sizes add up to it), and every row is stored in the chunk whose range   *)
(* contains its hash value.                                                *)
(***************************************************************************)
C7_RangesPartitionHashSpace ==
    (hp.pc = "done" /\ hp.h_partitioned) =>
       LET l == hp.pds_list
       IN  /\ \A j, k \in 1..Len(l) :
                 j < k => \/ l[j].hash_max < l[k].hash_min
                          \/ l[k].hash_max < l[j].hash_min
           /\ \A k \in 1..Len(l) : l[k].hash_min <= l[k].hash_max
           /\ RangeSizes(l) = HashSpace
           /\ \A k \in 1..Len(l) : \A n \in 1..Len(l[k].rows) :
                 /\ l[k].hash_min <= l[k].rows[n][1]
                 /\ l[k].rows[n][1] <= l[k].hash_max

\* the tasks that reference the outer chunk src of set p, and the tasks
\* whose release has released it
SourceHolders(p, src) ==
    {t \in TaskIds : /\ tasks[t].pmrels = p
                     /\ tasks[t].pds_src = src
                     /\ ~tasks[t].released}

SourceReleases(p, src) ==
    {t \in TaskIds : /\ tasks[t].pmrels = p
                     /\ tasks[t].h_src = src
                     /\ tasks[t].h_src_released}

(***************************************************************************)
(* C11: when gpujoin_task_complete takes a successful task that admitted   *)
(* fewer rows than its outer chunk holds (and raises no error), exactly    *)
(* one task is created, for the same set and the same chunk, starting at   *)
(* oitems_base + oitems_nums, and it is appended to the pending queue; the *)
(* completed task no longer references the chunk.  A successful task that  *)
(* admitted the rest of its chunk creates no task.  In every state an      *)
(* outer chunk is either referenced by exactly one unreleased task or was  *)
(* released exactly once.                                                  *)
(***************************************************************************)
C11_ContinuationOwnsChunk ==
    /\ [](\A t \in TaskIds :
            tasks[t].h_src # NoChunk =>
               Cardinality(SourceHolders(tasks[t].pmrels, tasks[t].h_src))
                 + Cardinality(SourceReleases(tasks[t].pmrels,
                                              tasks[t].h_src)) = 1)
    /\ [][(/\ completed_tasks # <<>>
           /\ completed_tasks' = Tail(completed_tasks)
           /\ tasks[Head(completed_tasks)].kerror = StromError_Success
           /\ tasks[Head(completed_tasks)].pds_src # NoChunk
           /\ ctl'.aborted = "none")
          => LET t == Head(completed_tasks)
                 n == Len(tasks) + 1
             IN  IF tasks[t].oitems_base + tasks[t].oitems_nums
                       < tasks[t].pds_src.nitems
                 THEN /\ Len(tasks') = n
                      /\ tasks'[n].pmrels = tasks[t].pmrels
                      /\ tasks'[n].pds_src = tasks[t].pds_src
                      /\ tasks'[n].oitems_base
                            = tasks[t].oitems_base + tasks[t].oitems_nums
                      /\ pending_tasks' = Append(pending_tasks, n)
                      /\ tasks'[t].pds_src = NoChunk
                      /\ ctl'.curr_task = t
                 ELSE /\ Len(tasks') = Len(tasks)
                      /\ pending_tasks' = pending_tasks
                      /\ tasks'[t].pds_src = tasks[t].pds_src]_vars

\* a chunk that went through two tasks and was released by the second one
\* after the first one was released
C11_Witness ==
    \E t \in TaskIds :
        /\ tasks[t].h_from # NULL
        /\ tasks[tasks[t].h_from].released
        /\ ~tasks[tasks[t].h_from].h_src_released
        /\ tasks[t].h_src_released

(***************************************************************************)
(* C12: a task whose status is neither Success nor DataStoreNoSpace is     *)
(* never on the pending queue; when gpujoin_task_complete takes it, the    *)
(* pending queue stays as it was, no task is created, the task's buffers   *)
(* are not attached anew, and the caller gets the task back with its error *)
(* status, which ends the scan with that error.                            *)
(***************************************************************************)
C12_FailedTaskNotRetried ==
    /\ [](\A k \in 1..Len(pending_tasks) :
            tasks[pending_tasks[k]].kerror
                \in {StromError_Success, StromError_DataStoreNoSpace})
    /\ [][(/\ completed_tasks # <<>>
           /\ completed_tasks' = Tail(completed_tasks)
           /\ tasks[Head(completed_tasks)].kerror
                  \notin {StromError_Success, StromError_DataStoreNoSpace})
          => LET t == Head(completed_tasks)
             IN  /\ pending_tasks' = pending_tasks
                 /\ Len(tasks') = Len(tasks)
                 /\ tasks'[t].kerror = tasks[t].kerror
                 /\ tasks'[t].pds_dst = tasks[t].pds_dst
                 /\ ~tasks'[t].h_done
                 /\ ctl'.aborted = "kerror"]_vars

\* a failed task was taken while another task was waiting
C12_Witness ==
    /\ ctl.aborted = "kerror"
    /\ pending_tasks # <<>>
    /\ \E t \in TaskIds :
          /\ tasks[t].kerror = CudaError
          /\ tasks[t].h_attempts >= 1
          /\ \A k \in 1..Len(pending_tasks) : pending_tasks[k] # t

(***************************************************************************)
(* C13: when the inner scan of a relation has ended, its list of chunks is *)
(* not empty; a relation that gave no row has exactly one chunk, without   *)
(* rows, in the hash format for a hash-join depth and in the row format    *)
(* for a nest-loop depth.                                                  *)
(***************************************************************************)
C13_EmptyRelationOneChunk ==
    hp.pc = "done" =>
       /\ Len(hp.pds_list) >= 1
       /\ hp.ntuples = 0 =>
             /\ Len(hp.pds_list) = 1
             /\ hp.pds_list[1].rows = <<>>
             /\ hp.pds_list[1].format = IF hp.hashed THEN "hash" ELSE "row"

\* a hash-join relation without rows has been loaded
C13_Witness ==
    /\ hp.pc = "done"
    /\ hp.ntuples = 0
    /\ hp.hashed
    /\ Len(hp.pds_list) = 1

(***************************************************************************)
(* C14: when gpujoin_inner_hash_preload_TS has got past its partitioning   *)
(* loop without an error, no bucket of the histogram is larger than        *)
(* pds_limit, and no chunk it closed was sized for more than pds_limit.    *)
(***************************************************************************)
C14_SkewedBucketIsFatal ==
    ((hp.pc = "done" /\ hp.h_partitioned)
        \/ (hp.pc = "segv" /\ hp.has_tupstore)) =>
       /\ \A i \in 1..hgram_width : hp.hgram_size[i] <= hp.pds_limit
       /\ \A k \in 1..(Len(hp.pds_list) - 1) :
             hp.pds_list[k].capacity <= hp.pds_limit

\* the rows of the relation with equal hash values lie in one chunk
SameHashSameChunk ==
    \A j, k \in 1..Len(hp.pds_list) :
       \A m \in 1..Len(hp.pds_list[j].rows) :
          \A n \in 1..Len(hp.pds_list[k].rows) :
             hp.pds_list[j].rows[m][1] = hp.pds_list[k].rows[n][1] => j = k

\* the hash-join depths that never append a chunk as they load
NeverAppending(join_types) ==
    (hp.hashed /\ hp.join_type \in join_types) =>
          /\ (hp.pc = "load" /\ ~hp.has_tupstore) => Len(hp.pds_list) <= 1
          /\ Len(hp'.pds_list) > Len(hp.pds_list) =>
                \/ hp.pds_list = <<>> /\ ~hp.has_tupstore
                \/ hp.has_tupstore /\ hp'.h_partitioned
          /\ (/\ hp.pc = "load"
              /\ ~hp.has_tupstore
              /\ hp'.ntuples > hp.ntuples
              /\ hp.pds_limit > 0
              /\ hp.pds_limit <= hp.consumed + (hp'.consumed - hp.consumed))
             => /\ hp'.has_tupstore
                /\ hp'.pds_list = <<>>
                /\ Len(hp'.tupstore) = hp'.ntuples
          /\ hp'.pc = "done" => SameHashSameChunk'

RescanStep == ctl'.h_rescans # ctl.h_rescans
EndStep == ctl'.ended /\ ~ctl.ended

(***************************************************************************)
(* C16: gpujoin_rescan and gpujoin_end leave the queues empty, create no   *)
(* task and enqueue no OUTER JOIN task: no set's outer_join_kicked or      *)
(* sweep count changes in such a step, also when the step drops the last   *)
(* reference to the current set.                                           *)
(***************************************************************************)
C16_RescanNeverKicksSweep ==
    [][(RescanStep \/ EndStep) =>
          /\ Len(tasks') = Len(tasks)
          /\ pending_tasks' = <<>>
          /\ running_tasks' = <<>>
          /\ completed_tasks' = <<>>
          /\ ctl'.curr_task = NULL
          /\ \A t \in TaskIds : tasks'[t].released
          /\ \A p \in PmIds :
                /\ pmrels'[p].h_sweeps = pmrels[p].h_sweeps
                /\ pmrels'[p].outer_join_kicked = pmrels[p].outer_join_kicked]_vars

\* a rescan has dropped the last reference to a set that had no sweep
C16_Witness ==
    /\ ctl.h_rescans = 1
    /\ ~ctl.h_keep
    /\ ctl.h_fresh
    /\ HasRightOuter
    /\ gjs.curr_pmrels = NULL
    /\ \E p \in PmIds :
          /\ pmrels[p].freed
          /\ pmrels[p].h_sweeps = 0
          /\ \E t \in TaskIds : tasks[t].pmrels = p /\ tasks[t].h_done

(***************************************************************************)
(* C17: gpujoin_rescan rewinds the outer relation; it keeps the loaded     *)
(* lists when no parameter of an inner relation changed and releases them  *)
(* otherwise; and the first task that is created after a rescan starts at  *)
(* the first outer row and belongs to the first window (pds_index is 1 at  *)
(* every depth).                                                           *)
(***************************************************************************)
C17_RescanRestartsEnumeration ==
    /\ [][RescanStep =>
             /\ gjs'.outer_pos = 1
             /\ ~gjs'.scan_done
             /\ gjs'.scan_overflow = NULL
             /\ ctl'.h_keep => gjs'.pds_list = gjs.pds_list
             /\ ~ctl'.h_keep =>
                   /\ gjs'.pds_list = [d \in Depths |-> <<>>]
                   /\ gjs'.curr_pmrels = NULL]_vars
    /\ [][(ctl.h_fresh /\ Len(tasks') > Len(tasks)) =>
             LET n == Len(tasks')
             IN  /\ tasks'[n].h_src.first = 1
                 /\ pmrels'[tasks'[n].pmrels].h_window
                       = [d \in Depths |-> 1]]_vars

(***************************************************************************)
(* C18: when gpujoin_exec_bulk has got a task, it releases the task; it    *)
(* returns the task's destination store iff the store has rows, and then   *)
(* the store is not released with the task; for a store without rows it    *)
(* returns nothing and goes on to the next task.  So no store without rows *)
(* is ever returned.                                                       *)
(***************************************************************************)
C18_BulkSkipsEmptyChunks ==
    /\ [](ctl.returned # NoStore => ctl.returned.nitems > 0)
    /\ [][(/\ ctl.exec_bulk
           /\ ctl.curr_task # NULL
           /\ ctl'.curr_task = NULL
           /\ ~RescanStep
           /\ ~EndStep
           /\ ctl'.aborted = "none")
          => LET t == ctl.curr_task
             IN  /\ tasks'[t].released
                 /\ ctl'.eos = ctl.eos
                 /\ IF tasks[t].pds_dst.nitems = 0
                    THEN /\ ctl'.returned = NoStore
                         /\ tasks'[t].h_dst_released
                    ELSE /\ ctl'.returned = tasks[t].pds_dst
                         /\ tasks'[t].pds_dst = NoStore
                         /\ ~tasks'[t].h_dst_released]_vars

\* a task without rows was skipped and the next task was fetched
C18_Witness ==
    /\ ctl.exec_bulk
    /\ ctl.returned = NoStore
    /\ ctl.curr_task # NULL
    /\ \E t \in TaskIds : /\ tasks[t].released
                           /\ tasks[t].h_done
                           /\ tasks[t].h_dst_released
                           /\ tasks[t].pds_dst.nitems = 0

\* the depths whose list has a sub-chunk behind the current one
CanAdvance(g) == {d \in Depths : g.pds_index[d] < Len(g.pds_list[d])}

\* the deepest depth of a non-empty set of depths
Deepest(ds) == CHOOSE d \in ds : \A e \in ds : e <= d

(***************************************************************************)
(* C19: when a call of gpujoin_next_chunk builds the set of the next       *)
(* window, pds_index of the deepest depth that has a sub-chunk left is one *)
(* more than before, pds_index of every deeper depth is 1, pds_index of    *)
(* the depths above it is unchanged, and the task created with the set     *)
(* starts at the first outer row; and the scan ends (NULL is returned)     *)
(* only when no depth has a sub-chunk left.                                *)
(***************************************************************************)
C19_AdvanceIsOdometerStep ==
    /\ [][(gjs.curr_pmrels # NULL /\ Len(pmrels') > Len(pmrels)) =>
             /\ CanAdvance(gjs) # {}
             /\ LET i == Deepest(CanAdvance(gjs))
                IN  \A d \in Depths :
                       gjs'.pds_index[d] =
                          IF d < i THEN gjs.pds_index[d]
                          ELSE IF d = i THEN gjs.pds_index[d] + 1
                          ELSE 1
             /\ Len(tasks') > Len(tasks) =>
                   tasks'[Len(tasks')].h_src.first = 1]_vars
    /\ [][(ctl'.eos /\ ~ctl.eos) => CanAdvance(gjs) = {}]_vars

(***************************************************************************)
(* C20: every set holds, at each depth, the sub-chunk at the position the  *)
(* depth's pds_index had when the set was built.                           *)
(***************************************************************************)
C20_WindowHoldsIndexedChunks ==
    \A p \in PmIds : \A d \in Depths :
        pmrels[p].inner_chunks[d] = gjs.pds_list[d][pmrels[p].h_window[d]]

(***************************************************************************)
(* C21: the enumeration of the windows terminates.  What a call of         *)
(* gpujoin_inner_preload does is decided by pds_index and the lengths of   *)
(* the sub-chunk lists alone, so the enumeration ends after finitely many  *)
(* advances exactly when no pds_index is the index of two sets of one      *)
(* scan; the sets built are then no more than the windows.                 *)
(***************************************************************************)
C21_EnumerationTerminates ==
    /\ \A p, q \in PmIds : p < q => pmrels[p].h_window # pmrels[q].h_window
    /\ Len(pmrels) <= Cardinality(Windows)

\* the sizes of an attempt of task t: both buffers and the admitted rows
AttemptSizes(t) ==
    <<tasks[t].kern.kresults_total_items, tasks[t].pds_dst.length,
      tasks[t].pds_dst.nrooms, tasks[t].oitems_nums>>

\* gpujoin_task_complete takes task t, which ended with DataStoreNoSpace, and
\* queues it again
ResizeStep(t) ==
    /\ completed_tasks # <<>>
    /\ Head(completed_tasks) = t
    /\ completed_tasks' = Tail(completed_tasks)
    /\ tasks[t].kerror = StromError_DataStoreNoSpace
    /\ ctl'.aborted = "none"

\* no re-sizing of a task of the given formats leaves its sizes as they were
ResizingChangesSizes(formats) ==
    \A t \in TaskIds :
        (cfg.result_format \in formats /\ ResizeStep(t)) =>
            AttemptSizes(t)' # AttemptSizes(t)

(***************************************************************************)
(* C22: every task leaves the retry cycle.  The device run of a task is    *)
(* decided by the task's buffers and admitted rows, so a task is queued    *)
(* again forever exactly when a re-sizing gives it the sizes of the        *)
(* attempt that failed: no re-sizing does, for destination buffers of slot *)
(* format and of row format.                                               *)
(***************************************************************************)
C22_RetryCycleEnds ==
    [][ResizingChangesSizes({KDS_FORMAT_SLOT, KDS_FORMAT_ROW})]_vars

\* C22 for destination buffers of slot format alone
C22_SlotRetryCycleEnds == [][ResizingChangesSizes({KDS_FORMAT_SLOT})]_vars

\* a task of slot format was re-sized and completed afterwards
C22_SlotWitness ==
    /\ cfg.result_format = KDS_FORMAT_SLOT
    /\ \E t \in TaskIds : tasks[t].h_attempts > 1 /\ tasks[t].h_done

\* the task that gpujoin_attach_result_buffer was given in a step that
\* created or re-sized task t
Prior(t) ==
    IF t > Len(tasks)
    THEN NewTask(tasks'[t].pmrels, tasks'[t].pds_src, tasks'[t].oitems_base)
    ELSE tasks[t]

\* a step in which gpujoin_attach_result_buffer sized the buffers of task t
\* and raised no error
AttachStep(t) ==
    /\ t \in 1..Len(tasks')
    /\ t > Len(tasks) \/ ResizeStep(t)
    /\ ctl'.aborted = "none"
    /\ tasks'[t].pds_src # NoChunk

\* n rows reduced in the proportion of a ceiling to the prediction
Proportional(n, ceiling, predicted) == (n * ceiling) \div predicted

\* the rows a task may admit: the rows that remain in the chunk, reduced in
\* proportion when the kern_gpujoin predicted for them is longer than a chunk
AdmittedByKresults(ratios, remaining) ==
    LET total_items == ExpectedItems(ratios[1], remaining)
    IN  IF KgjoinHead + 2 * ResultbufLength(total_items) > ChunkSize
        THEN Proportional(remaining,
                          (ChunkSize - KgjoinHead) \div 2 - ResultbufHead,
                          total_items)
        ELSE remaining

\* and reduced again when the destination store predicted for them is longer
\* than the limit
AdmittedByDstStore(format, width, ratios, oitems_nums) ==
    LET result_nitems == ExpectedItems(ratios[2], oitems_nums)
    IN  IF format = KDS_FORMAT_SLOT
        THEN IF SlotLength(result_nitems) > ChunkSizeLimit
             THEN Proportional(oitems_nums,
                               (ChunkSizeLimit - KdsHead) \div SlotWidth,
                               result_nitems)
             ELSE oitems_nums
        ELSE IF RowLength(result_nitems, width) > ChunkSizeLimit
             THEN Proportional(oitems_nums,
                               (ChunkSizeLimit - KdsHead)
                                   \div (1 + TupItemHead + width),
                               result_nitems)
             ELSE oitems_nums

\* the width of a result row that the row-format branch reckons with
PredictedWidth(g, prior) ==
    IF prior.pds_dst = NoStore THEN g.result_width
    ELSE (prior.pds_dst.usage - KdsHead - prior.pds_dst.nitems)
             \div prior.pds_dst.nitems

\* task t leaves gpujoin_attach_result_buffer with both buffers within their
\* ceilings and with the remaining rows of its chunk, reduced in proportion
\* where a prediction passed a ceiling, and at least one
CappedAndReduced(t) ==
    LET prior == Prior(t)
        ratios == RatiosWithPrevious(gjs', prior)
        remaining == prior.pds_src.nitems - prior.oitems_base
        admitted ==
            AdmittedByDstStore(gjs.result_format, PredictedWidth(gjs', prior),
                               ratios, AdmittedByKresults(ratios, remaining))
    IN  /\ KgjoinHead + 2 * ResultbufLength(
               tasks'[t].kern.kresults_total_items) <= ChunkSize
        /\ tasks'[t].pds_dst.length <= ChunkSizeLimit
        /\ tasks'[t].oitems_nums = admitted
        /\ tasks'[t].oitems_nums >= 1
        /\ tasks'[t].oitems_nums <= remaining

\* the sizing of the tasks of the given formats caps and reduces
SizingCapsAndReduces(formats) ==
    \A t \in 1..MaxTasks :
        (cfg.result_format \in formats /\ AttachStep(t)) => CappedAndReduced(t)

(***************************************************************************)
(* C23: when the kern_gpujoin or the destination store predicted for the   *)
(* remaining rows of a chunk is longer than its ceiling, the buffer is     *)
(* capped at the ceiling and the admitted rows are the remaining rows      *)
(* reduced in proportion, for slot and for row format; a task that was     *)
(* sized without error admits at least one row and at most the rows that   *)
(* remain in its chunk.                                                    *)
(***************************************************************************)
C23_CappedBufferReducesRows ==
    [][SizingCapsAndReduces({KDS_FORMAT_SLOT, KDS_FORMAT_ROW})]_vars

\* C23 for destination buffers of slot format alone
C23_SlotCappedBufferReducesRows ==
    [][SizingCapsAndReduces({KDS_FORMAT_SLOT})]_vars

\* a task of slot format admitted fewer rows than remained in its chunk and
\* completed
C23_SlotWitness ==
    /\ cfg.result_format = KDS_FORMAT_SLOT
    /\ \E t \in TaskIds :
          /\ tasks[t].h_done
          /\ tasks[t].h_src # NoChunk
          /\ tasks[t].oitems_nums
                 < tasks[t].h_src.nitems - tasks[t].oitems_base

\* the ratios that the attempt of task t that failed has consumed: items of
\* the kern_resultbuf and rows of the destination store per admitted row
ConsumedRatios(t) ==
    <<RDiv(tasks[t].kern.kresults_max_items, tasks[t].oitems_nums),
      RDiv(tasks[t].pds_dst.nitems, tasks[t].oitems_nums)>>

\* a step that re-sizes task t without raising an error
RetryStep(t) ==
    /\ t \in TaskIds
    /\ ResizeStep(t)
    /\ tasks'[t].oitems_nums >= 1

\* the ratios used for the re-sizing of task t are at least the consumed
\* ones, and so is what the new buffers provide for the rows admitted now
ProvidesForConsumption(t) ==
    LET used == RatiosWithPrevious(gjs', tasks[t])
        consumed == ConsumedRatios(t)
    IN  /\ RLe(consumed[1], used[1])
        /\ RLe(consumed[2], used[2])
        /\ tasks'[t].kern.kresults_total_items
               >= ExpectedItems(consumed[1], tasks'[t].oitems_nums)
        /\ gjs.result_format = KDS_FORMAT_SLOT =>
               tasks'[t].pds_dst.nrooms
                   >= ExpectedItems(consumed[2], tasks'[t].oitems_nums)

(***************************************************************************)
(* C24: when a task that ended with DataStoreNoSpace is re-sized, the      *)
(* ratio used for the kern_resultbuf is at least kresults_max_items /      *)
(* oitems_nums of the failed attempt, the ratio used for the destination   *)
(* store is at least its row count / oitems_nums, and the new buffers hold *)
(* at least what these consumed ratios predict for the rows admitted now.  *)
(***************************************************************************)
C24_RatiosNeverBelowConsumed ==
    [][\A t \in 1..MaxTasks : RetryStep(t) => ProvidesForConsumption(t)]_vars

\* a task was re-sized whose failed attempt had consumed more per row than
\* the estimate without it provides
C24_Witness ==
    \E t \in TaskIds :
        /\ tasks[t].kerror = StromError_DataStoreNoSpace
        /\ completed_tasks # <<>> /\ Head(completed_tasks) = t
        /\ tasks[t].oitems_nums >= 1
        /\ ~RLe(ConsumedRatios(t)[1], EstimatedRatios(gjs, tasks[t])[1])
        /\ gpujoin_attach_result_buffer(gjs, tasks[t]).err = "none"

\* the tasks whose launch is on its stream: the callback has not run yet
Streaming ==
    {t \in TaskIds : tasks[t].h_stream # <<>> /\ tasks[t].cuda_index # NULL}

\* the kernels among the requests of a stream
IsKernel(rq) ==
    rq.op \in {"gpujoin_preparation", "gpujoin_exec_nestloop",
               "gpujoin_exec_hashjoin", "gpujoin_outer_nestloop",
               "gpujoin_outer_hashjoin", "gpujoin_projection"}

\* the stream of task t starts with the upload of the inner relations and
\* the record of the event, or with the wait for the event
UploadsFirst(t) ==
    /\ tasks[t].h_stream[1].op = "cuMemcpyHtoDAsync_kmrels"
    /\ tasks[t].h_stream[2].op = "cuEventRecord"

WaitsFirst(t) == tasks[t].h_stream[1].op = "cuStreamWaitEvent"

Launched ==
    {t \in Streaming :
        tasks[t].h_stream[Len(tasks[t].h_stream)].op = "cuStreamAddCallback"}

IsProbe(rq) == rq.op \in {"gpujoin_exec_nestloop", "gpujoin_exec_hashjoin"}

IsSweep(rq) == rq.op \in {"gpujoin_outer_nestloop", "gpujoin_outer_hashjoin"}

\* the requests of a stream from the first probe, sweep or projection kernel
\* on, without the preparation kernels
RECURSIVE JoinRequests(_, _)
JoinRequests(stream, started) ==
    IF stream = <<>> THEN <<>>
    ELSE LET rq == Head(stream)
             join == IsProbe(rq) \/ IsSweep(rq)
                     \/ rq.op = "gpujoin_projection"
         IN  (IF (started \/ join) /\ rq.op # "gpujoin_preparation"
                    /\ rq.op # "cuMemcpyPeerAsync"
              THEN <<<<rq.op, rq.depth>>>> ELSE <<>>)
             \o JoinRequests(Tail(stream), started \/ join)

\* the kernels of depth d onwards as C26 has them
RECURSIVE KernelsInOrder(_, _)
KernelsInOrder(t, d) ==
    IF d > NumRels THEN <<>>
    ELSE LET sweep_task == tasks[t].pds_src = NoChunk
             suffix == IF gjs.hash_outer_keys[d] THEN "hashjoin"
                       ELSE "nestloop"
         IN  (IF sweep_task /\ d = gjs.outer_join_start_depth THEN <<>>
              ELSE <<<<"gpujoin_exec_" \o suffix, d>>>>)
             \o (IF sweep_task /\ IsRightOuter(gjs.join_type[d])
                 THEN <<<<"gpujoin_outer_" \o suffix, d>>>> ELSE <<>>)
             \o KernelsInOrder(t, d + 1)

(***************************************************************************)
(* C26: the kernels of a launch are, from the start depth to the last      *)
(* depth in ascending order, the probe kernel of the depth (not at the     *)
(* start depth of a task without outer chunk) and then, at a right or full *)
(* outer depth and only in the task without outer chunk that sweeps the    *)
(* set, the outer-join kernel of the depth; then one projection kernel,    *)
(* the transfer of the results and the callback, and nothing else.         *)
(***************************************************************************)
C26_KernelsInDepthOrder ==
    \A t \in Launched :
        JoinRequests(tasks[t].h_stream, FALSE) =
            KernelsInOrder(t, gjs.outer_join_start_depth)
                \o <<<<"gpujoin_projection", 0>>,
                     <<"cuMemcpyDtoHAsync_kgjoin", 0>>,
                     <<"cuMemcpyDtoHAsync_kds_dst", 0>>,
                     <<"cuStreamAddCallback", 0>>>>

\* C26 for the tasks that sweep a set and for joins without a right or full
\* outer depth
C26_SweepTaskKernelsInDepthOrder ==
    \A t \in Launched :
        (tasks[t].pds_src = NoChunk \/ ~HasRightOuter) =>
            JoinRequests(tasks[t].h_stream, FALSE) =
                KernelsInOrder(t, gjs.outer_join_start_depth)
                    \o <<<<"gpujoin_projection", 0>>,
                         <<"cuMemcpyDtoHAsync_kgjoin", 0>>,
                         <<"cuMemcpyDtoHAsync_kds_dst", 0>>,
                         <<"cuStreamAddCallback", 0>>>>

\* a task that sweeps a set with two right outer depths is launched
C26_SweepWitness ==
    \E t \in Launched :
        /\ tasks[t].pds_src = NoChunk
        /\ \A d \in Depths : IsRightOuter(gjs.join_type[d])

\* the positions in the stream of task t of the requests of depth d that
\* are of a kind
Positions(t, d, Kind(_)) ==
    {i \in 1..Len(tasks[t].h_stream) :
        tasks[t].h_stream[i].depth = d /\ Kind(tasks[t].h_stream[i])}

IsPeerCopy(rq) == rq.op = "cuMemcpyPeerAsync"

(***************************************************************************)
(* C27: in every launch and for every right or full outer depth, the       *)
(* stream holds one outer-join kernel of the depth, and every peer copy of *)
(* the depth's outer-join map comes after the probe kernel of the depth    *)
(* and before the outer-join kernel of the depth, at nest-loop and at hash *)
(* depths.                                                                 *)
(***************************************************************************)
C27_ColocateBetweenProbeAndSweep ==
    \A t \in Launched : \A d \in Depths :
        IF IsRightOuter(gjs.join_type[d]) /\ d >= gjs.outer_join_start_depth
        THEN /\ Cardinality(Positions(t, d, IsSweep)) = 1
             /\ \A i \in Positions(t, d, IsPeerCopy) :
                   /\ \A j \in Positions(t, d, IsProbe) : j < i
                   /\ \A k \in Positions(t, d, IsSweep) : i < k
        ELSE Positions(t, d, IsPeerCopy) = {}

\* a launch gathers the map of a nest-loop depth and the map of a hash depth
\* from the other device, after the probe kernels of these depths
C27_Witness ==
    \E t \in Launched : \E d, e \in Depths :
        /\ ~gjs.hash_outer_keys[d]
        /\ gjs.hash_outer_keys[e]
        /\ Positions(t, d, IsPeerCopy) # {}
        /\ Positions(t, e, IsPeerCopy) # {}
        /\ Positions(t, d, IsProbe) # {}
        /\ Positions(t, e, IsProbe) # {}

\* the holders of set p: the scheduler while p is the current window (until
\* gpujoin_end has detached it), and every task that was created with p and
\* is not released
LiveHolders(p) ==
    (IF gjs.curr_pmrels = p /\ ~ctl.ended THEN 1 ELSE 0)
        + Cardinality({t \in TaskIds : tasks[t].pmrels = p
                                        /\ ~tasks[t].released})

(***************************************************************************)
(* C28: n_attached of a set is the number of its holders; the set and its  *)
(* outer-join maps are freed exactly when no holder is left, and by then   *)
(* refcnt is zero on every device.                                         *)
(***************************************************************************)
C28_AttachedCountsHolders ==
    \A p \in PmIds :
        /\ pmrels[p].n_attached = LiveHolders(p)
        /\ pmrels[p].freed <=> LiveHolders(p) = 0
        /\ pmrels[p].freed =>
              \A d \in Devs : pmrels[p].refcnt[d] = 0 /\ ~pmrels[p].m_ojmaps[d]

\* a set with right outer join was freed by the release of its sweep task
\* after a continuation task had held it
C28_Witness ==
    \E p \in PmIds :
        /\ pmrels[p].freed
        /\ pmrels[p].h_sweeps = 1
        /\ pmrels[p].h_ojmap_allocs[1] >= 1
        /\ \E t, u \in TaskIds :
              /\ tasks[t].pmrels = p /\ tasks[t].h_from # NULL
              /\ tasks[u].pmrels = p /\ tasks[u].h_src = NoChunk
              /\ tasks[u].released

(***************************************************************************)
(* C29: the outer-join map of a set is allocated and zero-filled at most   *)
(* once per device, by the first multirels_get_buffer that succeeds on the *)
(* device; it stays allocated, and is not zero-filled again, when the      *)
(* mirror of the device is freed and when it is allocated again; it is     *)
(* freed only when the last holder detaches from the set.                  *)
(***************************************************************************)
C29_OjmapAllocatedOnce ==
    /\ [](\A p \in PmIds : \A d \in Devs :
             /\ pmrels[p].h_ojmap_allocs[d] <= 1
             /\ pmrels[p].m_ojmaps[d] => pmrels[p].h_ojmap_allocs[d] = 1)
    /\ [][\A p \in PmIds : \A d \in Devs :
             LET a == pmrels[p]
                 b == pmrels'[p]
             IN  /\ b.h_ojmap_allocs[d] # a.h_ojmap_allocs[d] =>
                        /\ ~a.m_ojmaps[d] /\ b.m_ojmaps[d]
                        /\ a.h_allocs[d] = 0 /\ b.h_allocs[d] = 1
                 /\ (a.m_ojmaps[d] /\ ~b.m_ojmaps[d]) =>
                        ~a.freed /\ b.freed /\ b.n_attached = 0
                 /\ (a.m_ojmaps[d] /\ ~b.freed) =>
                        /\ b.m_ojmaps[d]
                        /\ b.h_ojmap_allocs[d] = a.h_ojmap_allocs[d]]_vars

\* the mirror of a device was freed and allocated again, and the outer-join
\* map of the device is the one allocated with the first mirror
C29_Witness ==
    \E p \in PmIds : \E d \in Devs :
        /\ pmrels[p].h_allocs[d] = 2
        /\ pmrels[p].h_frees[d] >= 1
        /\ pmrels[p].m_kmrels[d]
        /\ pmrels[p].m_ojmaps[d]
        /\ pmrels[p].h_ojmap_allocs[d] = 1

(***************************************************************************)
(* C30: when a device allocation fails in multirels_get_buffer or in       *)
(* __gpujoin_task_process, the call returns false without raising an       *)
(* error, the task stays at the head of the pending queue holding no       *)
(* device resources, the reference count of every device is what it was    *)
(* and no mirror allocated by the attempt stays allocated.  As stated, the *)
(* outer-join maps are as they were as well; in the code the map that the  *)
(* attempt's multirels_get_buffer allocated stays recorded in the set when *)
(* the allocation of the task's own buffer fails afterwards.               *)
(***************************************************************************)
AllocationFailed ==
    /\ ctl.aborted = "none"
    /\ ctl'.faults = ctl.faults + 1
    /\ pending_tasks # <<>>
    /\ pending_tasks' = pending_tasks
    /\ ctl'.aborted = "none"

FailedTaskHoldsNothing ==
    LET t == Head(pending_tasks)
    IN  /\ tasks'[t].cuda_index = NULL
        /\ ~tasks'[t].m_kgjoin
        /\ ~tasks'[t].m_kmrels
        /\ tasks'[t].h_attempts = tasks[t].h_attempts
        /\ running_tasks' = running_tasks

MirrorsAsBefore ==
    \A p \in PmIds : \A d \in Devs :
        /\ pmrels'[p].refcnt[d] = pmrels[p].refcnt[d]
        /\ pmrels'[p].m_kmrels[d] = pmrels[p].m_kmrels[d]
        /\ pmrels'[p].ev_loaded[d] = pmrels[p].ev_loaded[d]
        /\ pmrels'[p].n_attached = pmrels[p].n_attached
        /\ pmrels'[p].freed = pmrels[p].freed

OjmapsAsBefore ==
    \A p \in PmIds : \A d \in Devs :
        pmrels'[p].m_ojmaps[d] = pmrels[p].m_ojmaps[d]

\* the only outer-join map a failed attempt leaves behind is the one its own
\* multirels_get_buffer allocated with the first mirror of the device
OjmapsKeptFromAttempt ==
    \A p \in PmIds : \A d \in Devs :
        pmrels'[p].m_ojmaps[d] # pmrels[p].m_ojmaps[d] =>
            /\ p = tasks[Head(pending_tasks)].pmrels
            /\ pmrels[p].ojmap_length > 0
            /\ pmrels[p].refcnt[d] = 0
            /\ ~pmrels[p].m_ojmaps[d]
            /\ pmrels'[p].m_ojmaps[d]
            /\ pmrels[p].h_ojmap_allocs[d] = 0
            /\ pmrels'[p].h_ojmap_allocs[d] = 1
            /\ pmrels'[p].h_frees[d] # pmrels[p].h_frees[d]
                   \/ pmrels[p].h_frees[d] = HistCap

C30_FailedAllocationLeavesSetUntouched ==
    [][AllocationFailed =>
           FailedTaskHoldsNothing /\ MirrorsAsBefore /\ OjmapsAsBefore]_vars

C30_FailedAllocationKeepsOnlyOjmap ==
    [][AllocationFailed =>
           FailedTaskHoldsNothing /\ MirrorsAsBefore
               /\ OjmapsKeptFromAttempt]_vars

\* no task was ever launched, one allocation failed, and the set holds an
\* outer-join map on a device whose mirror was allocated and freed again
C30_Witness ==
    /\ ctl.aborted = "none"
    /\ ctl.faults = 1
    /\ pending_tasks # <<>>
    /\ \A t \in 1..Len(tasks) : tasks[t].h_attempts = 0 /\ ~tasks[t].m_kmrels
    /\ \E d \in Devs :
           LET pmr == pmrels[tasks[Head(pending_tasks)].pmrels]
           IN  /\ pmr.m_ojmaps[d]
               /\ ~pmr.m_kmrels[d]
               /\ pmr.refcnt[d] = 0
               /\ pmr.h_allocs[d] = 1
               /\ pmr.h_frees[d] = 1

\* histogram bucket i (from 0) lies inside the hash range of the chunk
BucketInRange(chunk, i) ==
    /\ chunk.hash_min <= i * 2 ^ hgram_shift
    /\ (i + 1) * 2 ^ hgram_shift - 1 <= chunk.hash_max

\* the bytes the histogram counted in the buckets i.. inside the range
RECURSIVE RangeBytes(_, _)
RangeBytes(chunk, i) ==
    IF i >= hgram_width THEN 0
    ELSE (IF BucketInRange(chunk, i) THEN hp.hgram_size[i + 1] ELSE 0)
             + RangeBytes(chunk, i + 1)

(***************************************************************************)
(* C31: the load loop of gpujoin_inner_hash_preload_TS never finds a chunk *)
(* too small for a row routed to it by its hash value (the error "Histgram *)
(* was not correct" is not raised), and every chunk it built is sized for  *)
(* the bytes of exactly the histogram buckets inside its hash range (the   *)
(* last chunk for one block more).                                         *)
(***************************************************************************)
C31_HistogramNeverOverflows ==
    /\ hp.pc # "histgram_error"
    /\ (hp.pc = "done" /\ hp.h_partitioned) =>
          \A k \in 1..Len(hp.pds_list) :
             hp.pds_list[k].capacity =
                 RangeBytes(hp.pds_list[k], 0)
                     + (IF k = Len(hp.pds_list) THEN HashBlckSz ELSE 0)

\* the rows of all chunks of the list, chunk after chunk
RECURSIVE ChunkRows(_)
ChunkRows(pds_list) ==
    IF pds_list = <<>> THEN <<>>
    ELSE Head(pds_list).rows \o ChunkRows(Tail(pds_list))

Occurrences(rows, row) == Cardinality({n \in 1..Len(rows) : rows[n] = row})

\* the two sequences hold the same rows the same number of times
SameRows(a, b) ==
    /\ Len(a) = Len(b)
    /\ \A n \in 1..Len(a) : Occurrences(a, a[n]) = Occurrences(b, a[n])

HeapRowStep ==
    /\ ~hp.hashed
    /\ hp.pc = "load"
    /\ hp'.ntuples = hp.ntuples + 1

\* the row is appended to the last chunk; a chunk is started for it when
\* and only when the row would reach the budget of the depth
AppendedToLast ==
    LET row == hp'.h_rows[Len(hp'.h_rows)]
        old == hp.pds_list
        new == hp'.pds_list
        full == hp.pds_limit > 0
                    /\ hp.pds_limit <= hp.consumed + Consumption(row)
    IN  /\ hp'.h_rows = Append(hp.h_rows, row)
        /\ Len(new) = IF old = <<>> \/ full THEN Len(old) + 1 ELSE Len(old)
        /\ \A k \in 1..Len(old) :
              k < Len(new) => new[k] = old[k]
        /\ new[Len(new)].rows =
              Append(IF Len(new) > Len(old) THEN <<>> ELSE old[Len(old)].rows,
                     row)

(***************************************************************************)
(* C33: a nest-loop depth appends every row to its last chunk and starts a *)
(* new chunk exactly when the row would reach the byte budget; a chunk     *)
(* that is not the last one gets no row any more; the rows of the chunks,  *)
(* chunk after chunk, are the rows read, in the order read, each once.     *)
(***************************************************************************)
C33_HeapRowsInArrivalOrder ==
    /\ [](~hp.hashed => ChunkRows(hp.pds_list) = hp.h_rows)
    /\ [][HeapRowStep => AppendedToLast]_vars

\* a nest-loop depth was loaded into two chunks, the first with two rows
C33_Witness ==
    /\ ~hp.hashed
    /\ hp.pc = "done"
    /\ Len(hp.pds_list) = 2
    /\ Len(hp.pds_list[1].rows) = 2
    /\ Len(hp.pds_list[2].rows) = 1

\* a step of the callback gpujoin_task_respond
RespondStep ==
    /\ Len(running_tasks') = Len(running_tasks) - 1
    /\ Len(completed_tasks') = Len(completed_tasks) + 1

\* the task leaves the running queue and enters the completed queue, at the
\* head with a status other than Success and at the tail with Success
MovedByStatus(t) ==
    /\ Occurrences(running_tasks, t) = 1
    /\ Occurrences(completed_tasks, t) = 0
    /\ running_tasks' = SelectSeq(running_tasks, LAMBDA x : x # t)
    /\ completed_tasks' =
          IF tasks'[t].kerror = StromError_Success
          THEN Append(completed_tasks, t)
          ELSE <<t>> \o completed_tasks
    /\ pending_tasks' = pending_tasks

\* on the completed queue no successful task stands before a failed one,
\* and no task is on the running and completed queues twice
FailedTasksFirst ==
    /\ \A j, k \in 1..Len(completed_tasks) :
          (j < k /\ tasks[completed_tasks[j]].kerror = StromError_Success)
              => tasks[completed_tasks[k]].kerror = StromError_Success
    /\ \A t \in 1..Len(tasks) :
          Occurrences(running_tasks \o completed_tasks, t) <= 1

\* the consumer is handed the head of the completed queue
DeliveredFromHead ==
    (ctl'.curr_task # ctl.curr_task /\ ctl'.curr_task # NULL) =>
        /\ completed_tasks # <<>>
        /\ ctl'.curr_task = Head(completed_tasks)
        /\ completed_tasks' = Tail(completed_tasks)

Mover == IF ctl'.prog[Backend] # ctl.prog[Backend] THEN Backend ELSE Callback

QueuesChange ==
    \/ pending_tasks' # pending_tasks
    \/ running_tasks' # running_tasks
    \/ completed_tasks' # completed_tasks
    \/ ctl'.num_pending_tasks # ctl.num_pending_tasks
    \/ ctl'.num_running_tasks # ctl.num_running_tasks
    \/ ctl'.num_completed_tasks # ctl.num_completed_tasks

RefcountsChange ==
    \/ pmrels'[1].n_attached # pmrels[1].n_attached
    \/ pmrels'[1].refcnt # pmrels[1].refcnt

\* the queues and their counters change only in a step of the lock holder
QueuesUnderLock == QueuesChange => (ctl.lock = Mover /\ ctl'.lock = Mover)

\* a thread that calls the device does not hold the lock
NoDeviceCallUnderLock ==
    \A th \in Threads :
        (/\ ctl.prog[th] # <<>>
         /\ Head(ctl.prog[th]) \in DeviceCalls
         /\ ctl'.prog[th] # ctl.prog[th]) => ctl.lock # th

\* with the lock free the counters are the lengths of the queues, and no
\* task is on two queues or twice on one
CountersMatchQueues ==
    ctl.lock = LockFree =>
        /\ ctl.num_pending_tasks = Len(pending_tasks)
        /\ ctl.num_running_tasks = Len(running_tasks)
        /\ ctl.num_completed_tasks = Len(completed_tasks)
        /\ \A t \in 1..Len(tasks) :
              Occurrences(pending_tasks \o running_tasks \o completed_tasks,
                          t) <= 1

(***************************************************************************)
(* C35, as stated: the reference counts n_attached and refcnt, the three   *)
(* queues and their counters change only in steps of the thread that holds *)
(* the lock; a thread that calls the device does not hold it; when the     *)
(* lock is free the counters equal the lengths of their queues and every   *)
(* task is on at most one queue.                                           *)
(***************************************************************************)
C35_AllSharedStateUnderLock ==
    /\ []CountersMatchQueues
    /\ [][/\ QueuesUnderLock
          /\ RefcountsChange => ctl.lock = Mover
          /\ NoDeviceCallUnderLock]_vars

(***************************************************************************)
(* C35, amended: the same for the queues and their counters; the reference *)
(* counts n_attached and refcnt are changed by the backend only, in steps  *)
(* in which it does not hold the lock.                                     *)
(***************************************************************************)
C35_QueuesUnderLock ==
    /\ []CountersMatchQueues
    /\ [][/\ QueuesUnderLock
          /\ RefcountsChange => (Mover = Backend /\ ctl.lock # Backend)
          /\ NoDeviceCallUnderLock]_vars

\* the callback holds the lock in the middle of moving its task while the
\* backend has attached a second task to the set
C35_Witness ==
    /\ ctl.lock = Callback
    /\ ctl.num_running_tasks # Len(running_tasks)
    /\ pmrels[1].n_attached >= 2
    /\ \E d \in Devs : pmrels[1].refcnt[d] >= 1

\* the completion handler takes a terminal sweep task (a task without an
\* outer chunk) that the device completed successfully
SweepCompletes ==
    /\ ctl.aborted = "none"
    /\ ctl.curr_task = NULL
    /\ completed_tasks # <<>>
    /\ completed_tasks' = Tail(completed_tasks)
    /\ tasks[Head(completed_tasks)].pds_src = NoChunk
    /\ tasks[Head(completed_tasks)].h_src = NoChunk
    /\ tasks[Head(completed_tasks)].kerror = StromError_Success

(***************************************************************************)
(* C36: when gpujoin_task_complete takes a successfully completed task     *)
(* that has no outer chunk, no error or fault ends the query, no task is   *)
(* created, nothing is queued, and the task is returned to be delivered.   *)
(***************************************************************************)
C36_SweepTaskAccepted ==
    [][SweepCompletes =>
           /\ ctl'.aborted = "none"
           /\ ctl'.curr_task = Head(completed_tasks)
           /\ Len(tasks') = Len(tasks)
           /\ pending_tasks' = pending_tasks]_vars

\* the step changes the statistics of the size estimator
StatisticsChange ==
    \/ gjs'.source_nitems # gjs.source_nitems
    \/ gjs'.outer_nitems # gjs.outer_nitems

\* gpujoin_task_complete takes a task the device completed successfully
SuccessCompletes ==
    /\ completed_tasks # <<>>
    /\ completed_tasks' = Tail(completed_tasks)
    /\ tasks[Head(completed_tasks)].kerror = StromError_Success

\* the rows of the outer chunk the completed task had admitted
RowsOfAttempt(t) ==
    IF tasks[t].pds_src = NoChunk THEN 0
    ELSE Cardinality({r \in 0..(tasks[t].pds_src.nitems - 1) :
                         /\ tasks[t].oitems_base <= r
                         /\ r < tasks[t].oitems_base + tasks[t].oitems_nums})

(***************************************************************************)
(* C37: source_nitems and outer_nitems[] change only when a successfully   *)
(* completed task is taken by gpujoin_task_complete, which adds the outer  *)
(* rows the task admitted; a task that ended with DataStoreNoSpace adds    *)
(* nothing.  source_nitems never exceeds one count per outer row and       *)
(* window, equals outer_nitems[0], and is exactly one count per outer row  *)
(* and window when the scan has ended and no task is left.                 *)
(***************************************************************************)
C37_StatisticsCountRowsOnce ==
    /\ [](/\ gjs.source_nitems <= NOuter * Len(pmrels)
          /\ OuterNitems(gjs.outer_nitems, 0) = gjs.source_nitems
          /\ Quiescent => gjs.source_nitems = NOuter * Len(pmrels))
    /\ [][/\ StatisticsChange => SuccessCompletes
          /\ (SuccessCompletes /\ ctl'.aborted = "none") =>
                gjs'.source_nitems =
                    gjs.source_nitems + RowsOfAttempt(Head(completed_tasks))
         ]_vars

\* the scan has ended after a task was retried with larger buffers and a
\* task was continued, and every outer row was counted once
C37_Witness ==
    /\ Quiescent
    /\ gjs.source_nitems = NOuter * Len(pmrels)
    /\ \E t \in TaskIds : tasks[t].h_attempts >= 2 /\ tasks[t].h_done
    /\ \E t \in TaskIds : tasks[t].h_from # NULL /\ tasks[t].h_done

\* gpujoin_next_chunk is called after it has signalled the end of the scan
CalledAfterEnd ==
    /\ ctl.aborted = "none"
    /\ ctl.eos
    /\ ctl.curr_task = NULL
    /\ pending_tasks = <<>>
    /\ completed_tasks' = completed_tasks
    /\ running_tasks' = running_tasks

(***************************************************************************)
(* C38: a call of gpujoin_next_chunk after it has signalled the end of the *)
(* scan, with no rescan in between, signals the end of the scan again: it  *)
(* builds no InnerRelationSet, creates no task and queues nothing.         *)
(***************************************************************************)
C38_EndOfScanIsSticky ==
    [][CalledAfterEnd =>
           /\ ctl'.eos
           /\ Len(pmrels') = Len(pmrels)
           /\ Len(tasks') = Len(tasks)
           /\ pending_tasks' = <<>>
           /\ gjs'.curr_pmrels = NULL]_vars

\* the rows of the current load that fall into bucket i of the histogram
RowsOfBucket(i) ==
    {k \in 1..Len(hp.h_rows) : hp.h_rows[k][1] \div 2 ^ hgram_shift = i - 1}

RECURSIVE BytesOfRows(_)
BytesOfRows(ks) ==
    IF ks = {} THEN 0
    ELSE LET k == CHOOSE x \in ks : TRUE
         IN  Consumption(hp.h_rows[k]) + BytesOfRows(ks \ {k})

(***************************************************************************)
(* C39: while and after the SubChunks of a hash-joined inner relation are  *)
(* loaded, also on a reload after a rescan released them, every bucket of  *)
(* the histogram holds the byte size and the number of exactly the rows    *)
(* read in the current load.                                               *)
(***************************************************************************)
C39_HistogramCountsCurrentLoad ==
    (hp.hashed /\ hp.h_rows # <<>>) =>
        \A i \in 1..hgram_width :
            /\ hp.hgram_nitems[i] = Cardinality(RowsOfBucket(i))
            /\ hp.hgram_size[i] = BytesOfRows(RowsOfBucket(i))

\* the entries of the result index that belong to the sorted partition
PartitionResults ==
    [i \in 0..(localEntry(hp) - 1) |-> hp.results[prtPos(hp) + i]]

(***************************************************************************)
(* C40: when gpusort_bitonic_local has written its result back, the result *)
(* index of the partition is a permutation of the partition's row          *)
(* positions, and gpusort_keycomp of two consecutive entries is never      *)
(* greater than zero; this holds for a full partition and for one with     *)
(* fewer rows than twice the work-group size.                              *)
(***************************************************************************)
C40_LocalSortOrdersPartition ==
    hp.pc = "done" =>
        /\ \A p \in prtPos(hp)..(prtPos(hp) + localEntry(hp) - 1) :
              Cardinality({i \in DOMAIN PartitionResults :
                              PartitionResults[i] = p}) = 1
        /\ \A i \in DOMAIN PartitionResults :
              i + 1 \in DOMAIN PartitionResults =>
                  gpusort_keycomp(hp.keys, PartitionResults[i],
                                  PartitionResults[i + 1]) <= 0

\* a partition of fewer than 2L rows whose rows were out of order is sorted
C40_Witness ==
    /\ hp.pc = "done"
    /\ hp.localSize = MaxLocalSize
    /\ localEntry(hp) < prtSize(hp)
    /\ localEntry(hp) > hp.localSize
    /\ \E i \in DOMAIN PartitionResults : PartitionResults[i] # prtPos(hp) + i
    /\ \E i \in 0..(localEntry(hp) - 2) :
          gpusort_keycomp(hp.keys, prtPos(hp) + i, prtPos(hp) + i + 1) > 0

TypeOK ==
    /\ Len(pmrels) <= MaxPmrels
    /\ Len(tasks) <= MaxTasks

====
